---- MODULE Spec2Model ----
(***************************************************************************)
(* State-machine model of rlvm: the CSI Controller orchestrator            *)
(* (crates/csi/src/controller.rs) on top of the volume-group authority     *)
(* volumed (crates/volumed/src/server.rs), and the mount authority mountd  *)
(* (crates/mountd/src/server.rs, crates/mountd/src/lib.rs).                *)
(*                                                                         *)
(* Capacities are byte counts.  Status codes are the tonic::Code names.    *)
(* Every handler is one atomic action; `last` records the request, the     *)
(* reply and the state the handler started from.                           *)
(***************************************************************************)
EXTENDS Integers, Sequences, FiniteSets, TLC

VARIABLES
    lvs,        \* host LVM: the logical volumes of every volume group
    nextUuid,   \* host LVM: index of the next UUID lvcreate hands out
    vg,         \* the VolumeGroup injected into every volumed request
    vconfig,    \* volumed Config {volume_group, spare_bytes}
    fs,         \* host filesystem metadata, per path
    mounts,     \* host live mount table, per path
    mconfig,    \* mountd Config {for_user, for_group, whitelist}
    faulty,     \* whether host commands / authority calls may fail
    last,       \* the last request served, its reply and its pre-state
    calls       \* CreateVolume calls in flight, each at its next await

vars ==
    <<lvs, nextUuid, vg, vconfig, fs, mounts, mconfig, faulty, last, calls>>

ctlVars == <<lvs, nextUuid, vg, vconfig>>
mntVars == <<fs, mounts, mconfig>>

----------------------------------------------------------------------------
(* Bounds and input domains                                                *)

\* lvcreate is run at most MaxCreates times in a behaviour
MaxCreates == 2

MIN_VOLUME_SIZE_BYTES == 512 * 1024 * 1024

None == [some |-> FALSE]
Some(v) == [some |-> TRUE, val |-> v]

Ok(v) == [status |-> "OK", val |-> v]
Err(code) == [status |-> code]

\* UUIDs the host volume manager hands out; Uuid(0) belongs to a volume
\* of a volume group that volumed does not manage
Uuid(i) == "lv-uuid-" \o ToString(i)

ForeignUuid == Uuid(0)

WellFormedUuids == {Uuid(i) : i \in 0..(MaxCreates + 1)}

\* volume ids a caller may send: empty, malformed, well-formed
VolumeIds == {"", "not-a-uuid"} \cup WellFormedUuids

\* volume names a caller may send
Names == {"", "a", "b"}

ManagedVg == "vg0"
ForeignVg == "vg1"

\* required_bytes / limit_bytes values (i64) a caller may send
RequiredBytes ==
    {-1, 0, MIN_VOLUME_SIZE_BYTES - 1, MIN_VOLUME_SIZE_BYTES,
     2 * MIN_VOLUME_SIZE_BYTES, 2 * MIN_VOLUME_SIZE_BYTES + 1,
     3 * MIN_VOLUME_SIZE_BYTES, 3 * MIN_VOLUME_SIZE_BYTES + 1}

CapacityRanges ==
    {None}
    \cup {Some([required_bytes |-> r, limit_bytes |-> 0]) : r \in RequiredBytes}
    \cup {Some([required_bytes |-> r, limit_bytes |-> -1]) :
              r \in {0, MIN_VOLUME_SIZE_BYTES}}

\* the capability lists a caller may send (access modes only)
CapabilityLists == {<<>>, <<"SingleNodeWriter">>}

\* CreateVolumeRequest: every range for the named volumes, and the
\* requests with a missing name or missing capabilities
CreateVolumeRequests ==
    [name : Names \ {""}, volume_capabilities : {<<"SingleNodeWriter">>},
     capacity_range : CapacityRanges]
    \cup [name : {"", "a"}, volume_capabilities : CapabilityLists,
          capacity_range : {None, Some([required_bytes |-> 0, limit_bytes |-> 0])}]

\* LVMError variants a failing host command can produce
LVMErrorKinds == {"NotFound", "Command", "Other"}

NoFault == [at |-> "none", kind |-> "Other"]

VolumedFaultPoints ==
    {"get_free_bytes", "get_logical_volume", "create_logical_volume",
     "delete_logical_volume", "format_logical_volume"}

\* at most one host failure per request, and only when faulty
Faults(points) ==
    IF faulty
    THEN {NoFault} \cup [at : points, kind : LVMErrorKinds]
    ELSE {NoFault}

----------------------------------------------------------------------------
(* Controller helpers                                                      *)

\* hash_resource: DefaultHasher digest printed as upper-case hex
hash_resource(name) ==
    CASE name = ""  -> "D1FBA762150C532C"
      [] name = "a" -> "8A4C6B2F0E9D7713"
      [] name = "b" -> "5E0F93A1C4B82D66"

get_host_topology == [segments |-> [host |-> "node-id"]]

get_access_topologies == <<get_host_topology>>

\* From<LogicalVolume> for LV: the wire form drops the tags
ToLV(lv) ==
    [uuid |-> lv.uuid, name |-> lv.name,
     capacity_bytes |-> lv.capacity_bytes, volume_group |-> lv.volume_group]

process_volume(lv) ==
    [capacity_bytes |-> lv.capacity_bytes,
     volume_id |-> lv.uuid,
     volume_context |-> [name |-> lv.name],
     accessible_topology |-> get_access_topologies]

\* i64 -> usize conversion of required_bytes and limit_bytes
ParseCapacityRange(range) ==
    IF range.some
    THEN IF range.val.required_bytes < 0
         THEN Err("InvalidArgument")
         ELSE IF range.val.limit_bytes < 0
              THEN Err("InvalidArgument")
              ELSE Ok(<<range.val.required_bytes, range.val.limit_bytes>>)
    ELSE Ok(<<MIN_VOLUME_SIZE_BYTES, 0>>)

----------------------------------------------------------------------------
(* volumed (crates/volumed/src/server.rs) over the host volume manager     *)

map_lvm_error(kind) ==
    CASE kind = "NotFound" -> "NotFound"
      [] kind = "Command"  -> "InvalidArgument"
      [] OTHER             -> "Internal"

\* conversions into ResourceName / ResourceUUID / ResourceCapacity
IsResourceName(s) == s # ""
IsResourceUUID(s) == s \in WellFormedUuids
IsResourceCapacity(c) == c >= 0

\* LogicalVolume::from_uuid: not scoped to a volume group
LvFromUuid(L, uuid) == {lv \in L : lv.uuid = uuid}

\* LogicalVolume::from_id(&vg.name, &name)
LvFromId(L, vgname, name) ==
    {lv \in L : lv.volume_group = vgname /\ lv.name = name}

\* checked_sub(..).unwrap_or(0) on unsigned integers
UncheckedSub(a, b) == a - b
CheckedSubOrZero(a, b) == IF a >= b THEN a - b ELSE 0

get_free_bytes(fault) ==
    IF fault.at = "get_free_bytes"
    THEN Err("Internal")
    ELSE LET spare_bytes == IF vconfig.spare_bytes.some
                            THEN vconfig.spare_bytes.val ELSE 0
         IN Ok(CheckedSubOrZero(vg.capacity_bytes, spare_bytes))

get_logical_volume(L, id, fault) ==
    IF id.kind = "Uuid"
    THEN IF ~IsResourceUUID(id.val)
         THEN Err("InvalidArgument")
         ELSE IF fault.at = "get_logical_volume"
              THEN Err(map_lvm_error(fault.kind))
              ELSE IF LvFromUuid(L, id.val) = {}
                   THEN Err(map_lvm_error("NotFound"))
                   ELSE Ok(ToLV(CHOOSE lv \in LvFromUuid(L, id.val) : TRUE))
    ELSE IF ~IsResourceName(id.val)
         THEN Err("InvalidArgument")
         ELSE IF fault.at = "get_logical_volume"
              THEN Err(map_lvm_error(fault.kind))
              ELSE IF LvFromId(L, vg.name, id.val) = {}
                   THEN Err(map_lvm_error("NotFound"))
                   ELSE Ok(ToLV(CHOOSE lv \in LvFromId(L, vg.name, id.val) : TRUE))

\* add_lv: lvcreate refuses a name the volume group already holds
NameTakenNever(L, vgname, name) == FALSE
NameTaken(L, vgname, name) == LvFromId(L, vgname, name) # {}

\* returns the reply, the volumes afterwards and the next UUID index;
\* add_lv on a name the group already holds is refused by the host volume
\* manager, reported here as an LVMError other than NotFound and Command
create_logical_volume(L, n, req, fault) ==
    IF ~IsResourceCapacity(req.capacity)
    THEN [status |-> "InvalidArgument", L |-> L, n |-> n]
    ELSE IF ~IsResourceName(req.name)
    THEN [status |-> "InvalidArgument", L |-> L, n |-> n]
    ELSE IF fault.at = "create_logical_volume"
    THEN [status |-> map_lvm_error(fault.kind), L |-> L, n |-> n]
    ELSE IF NameTaken(L, vg.name, req.name)
    THEN [status |-> map_lvm_error("Other"), L |-> L, n |-> n]
    ELSE LET lv == [uuid |-> Uuid(n), name |-> req.name,
                    capacity_bytes |-> req.capacity,
                    volume_group |-> vg.name, tags |-> req.tags]
         IN [status |-> "OK", val |-> ToLV(lv), L |-> L \cup {lv}, n |-> n + 1]

delete_logical_volume(L, name, fault) ==
    IF ~IsResourceName(name)
    THEN [status |-> "InvalidArgument", L |-> L]
    ELSE IF fault.at = "delete_logical_volume"
    THEN [status |-> map_lvm_error(fault.kind), L |-> L]
    ELSE IF LvFromId(L, vg.name, name) = {}
    THEN [status |-> map_lvm_error("NotFound"), L |-> L]
    ELSE [status |-> "OK", L |-> L \ LvFromId(L, vg.name, name)]

\* mkfs.xfs -f on the volume's device; a failing mkfs is a host fault
format_logical_volume(L, name, fault) ==
    IF ~IsResourceName(name)
    THEN Err("InvalidArgument")
    ELSE IF LvFromId(L, vg.name, name) = {}
    THEN Err(map_lvm_error("NotFound"))
    ELSE IF fault.at = "format_logical_volume"
    THEN Err("Internal")
    ELSE Ok(name)

----------------------------------------------------------------------------
(* Controller handlers (crates/csi/src/controller.rs)                      *)

\* a reply that stops before any change to the host (an early return)
CtlFail(code, L, n) ==
    [status |-> code, L |-> L, n |-> n, format_calls |-> {}, created |-> FALSE]

\* the tail of create_volume: format, then project the volume
FormatAndReply(volume, safe_name, L, n, created, fault) ==
    LET f == format_logical_volume(L, safe_name, fault)
    IN IF f.status # "OK"
       THEN [status |-> f.status, L |-> L, n |-> n,
             format_calls |-> {safe_name}, created |-> created]
       ELSE [status |-> "OK", volume |-> process_volume(volume), L |-> L,
             n |-> n, format_calls |-> {safe_name}, created |-> created]

ExceedsFreeBad(capacity, total_capacity) == capacity >= total_capacity
ExceedsFree(capacity, total_capacity) == capacity > total_capacity

BelowMinimumBad(capacity) == capacity = 0
BelowMinimum(capacity) == capacity < MIN_VOLUME_SIZE_BYTES

CapacityDiffersAlways(old, capacity) == TRUE
CapacityDiffersNever(old, capacity) == FALSE
CapacityDiffers(old, capacity) == old.capacity_bytes # capacity

create_volume(L, n, req, fault) ==
    IF req.name = ""
    THEN CtlFail("InvalidArgument", L, n)
    ELSE IF req.volume_capabilities = <<>>
    THEN CtlFail("InvalidArgument", L, n)
    ELSE LET parsed == ParseCapacityRange(req.capacity_range)
    IN IF parsed.status # "OK"
    THEN CtlFail(parsed.status, L, n)
    ELSE LET capacity == parsed.val[1]
             total_capacity == get_free_bytes(fault)
    IN IF total_capacity.status # "OK"
    THEN CtlFail("Internal", L, n)
    ELSE IF BelowMinimum(capacity)
    THEN CtlFail("OutOfRange", L, n)
    ELSE IF ExceedsFree(capacity, total_capacity.val)
    THEN CtlFail("OutOfRange", L, n)
    ELSE LET safe_name == hash_resource(req.name)
             volume == get_logical_volume(
                           L, [kind |-> "Name", val |-> safe_name], fault)
    IN IF volume.status = "OK"
    THEN IF CapacityDiffers(volume.val, capacity)
         THEN CtlFail("AlreadyExists", L, n)
         ELSE FormatAndReply(volume.val, safe_name, L, n, FALSE, fault)
    ELSE IF volume.status = "NotFound"
    THEN LET made == create_logical_volume(
                         L, n,
                         [name |-> safe_name, capacity |-> capacity,
                          tags |-> <<"name=" \o req.name>>],
                         fault)
         IN IF made.status # "OK"
            THEN CtlFail(made.status, L, n)
            ELSE FormatAndReply(made.val, safe_name, made.L, made.n, TRUE, fault)
    ELSE CtlFail(volume.status, L, n)

delete_volume(L, req, fault) ==
    IF req.volume_id = ""
    THEN [status |-> "InvalidArgument", L |-> L]
    ELSE LET lv == get_logical_volume(
                       L, [kind |-> "Uuid", val |-> req.volume_id], fault)
    IN IF lv.status = "OK"
    THEN LET gone == delete_logical_volume(L, lv.val.name, fault)
         IN IF gone.status # "OK"
            THEN [status |-> gone.status, L |-> L]
            ELSE [status |-> "OK", L |-> gone.L]
    ELSE [status |-> "OK", L |-> L]

\* whether this request repeats the previous one, and how that one ended
Repeats(op, req) == last.op = op /\ last.req = req

FirstOf(op, req) ==
    IF Repeats(op, req)
    THEN [status |-> last.status, reply |-> last.reply]
    ELSE [status |-> "none", reply |-> None]

CreateVolume(req, fault) ==
    LET out == create_volume(lvs, nextUuid, req, fault)
    IN /\ out.n <= MaxCreates + 1
       /\ lvs' = out.L
       /\ nextUuid' = out.n
       /\ last' = [op |-> "CreateVolume", req |-> req, fault |-> fault,
                   status |-> out.status,
                   reply |-> IF out.status = "OK" THEN Some(out.volume) ELSE None,
                   pre |-> lvs,
                   format_calls |-> out.format_calls,
                   repeat |-> Repeats("CreateVolume", req),
                   first |-> FirstOf("CreateVolume", req)]
       /\ UNCHANGED <<vg, vconfig, faulty, mntVars, calls>>

DeleteVolume(req, fault) ==
    LET out == delete_volume(lvs, req, fault)
    IN /\ lvs' = out.L
       /\ last' = [op |-> "DeleteVolume", req |-> req, fault |-> fault,
                   status |-> out.status,
                   reply |-> None,
                   pre |-> lvs,
                   format_calls |-> {},
                   repeat |-> Repeats("DeleteVolume", req),
                   first |-> FirstOf("DeleteVolume", req)]
       /\ UNCHANGED <<nextUuid, vg, vconfig, faulty, mntVars, calls>>

----------------------------------------------------------------------------
(* Controller queries (crates/csi/src/controller.rs)                       *)

\* the largest index a starting token names in the requests below
MaxToken == 3

\* str::parse::<usize>: the number whose decimal form is the string
ParseUsize(s) ==
    IF \E k \in 0..MaxToken : ToString(k) = s
    THEN Ok(CHOOSE k \in 0..MaxToken : ToString(k) = s)
    ELSE Err("ParseIntError")

\* vg.list_lvs(): the volumes of the managed group, in creation order
RECURSIVE ListLvsFrom(_, _)
ListLvsFrom(L, i) ==
    IF i > MaxCreates + 1
    THEN <<>>
    ELSE LET here == {lv \in L : lv.volume_group = vg.name /\ lv.uuid = Uuid(i)}
         IN (IF here = {} THEN <<>> ELSE <<CHOOSE lv \in here : TRUE>>)
                \o ListLvsFrom(L, i + 1)

get_lv_list(L, fault) ==
    IF fault.at = "get_lv_list"
    THEN Err(map_lvm_error(fault.kind))
    ELSE LET all == ListLvsFrom(L, 0)
         IN Ok([i \in 1..Len(all) |-> ToLV(all[i])])

\* Iterator::take(n)
TakeNone(list, n) == list
Take(list, n) == IF n >= Len(list) THEN list ELSE SubSeq(list, 1, n)

list_volumes(L, req, fault) ==
    IF req.max_entries < 0
    THEN [status |-> "InvalidArgument"]
    ELSE LET start == IF req.starting_token # ""
                      THEN ParseUsize(req.starting_token)
                      ELSE Ok(0)
    IN IF start.status # "OK"
    THEN [status |-> "Aborted"]
    ELSE LET got == get_lv_list(L, fault)
    IN IF got.status # "OK"
    THEN [status |-> "Internal"]
    ELSE LET entries == [i \in 1..Len(got.val) |->
                            [volume |-> Some(process_volume(got.val[i])),
                             status |-> None]]
             taken == IF req.max_entries = 0
                      THEN entries
                      ELSE Take(entries, req.max_entries)
             last_index == start.val + req.max_entries
             length == Len(taken)
    IN [status |-> "OK",
        entries |-> taken,
        next_token |-> IF last_index < length
                       THEN ToString(last_index)
                       ELSE ""]

\* ListVolumesRequest: max_entries is an i32, starting_token a string
ListVolumesRequests ==
    [max_entries : {-1, 0, 1, 2},
     starting_token : {"", "x"} \cup {ToString(k) : k \in 0..MaxToken}]

ListVolumes(req, fault) ==
    LET out == list_volumes(lvs, req, fault)
    IN /\ last' = [op |-> "ListVolumes", req |-> req, fault |-> fault,
                   status |-> out.status,
                   reply |-> IF out.status = "OK"
                             THEN Some([entries |-> out.entries,
                                        next_token |-> out.next_token])
                             ELSE None,
                   pre |-> lvs]
       /\ UNCHANGED <<ctlVars, faulty, mntVars, calls>>

\* access modes of a VolumeCapability; "Unknown" is also what
\* access_mode.unwrap_or_default().mode() yields for a missing access mode
AccessModes ==
    {"Unknown", "SingleNodeWriter", "SingleNodeReaderOnly",
     "MultiNodeReaderOnly", "MultiNodeSingleWriter", "MultiNodeMultiWriter"}

IsMultiNodeWriter(mode) ==
    mode \in {"MultiNodeMultiWriter", "MultiNodeSingleWriter"}
IsMultiNode(mode) ==
    mode \in {"MultiNodeMultiWriter", "MultiNodeReaderOnly",
              "MultiNodeSingleWriter"}

\* GetCapacityResponse::default()
DefaultCapacity ==
    [available_capacity |-> 0, maximum_volume_size |-> None,
     minimum_volume_size |-> None]

get_capacity(req, fault) ==
    IF \E i \in 1..Len(req.volume_capabilities) :
           IsMultiNode(req.volume_capabilities[i])
    THEN [status |-> "OK", reply |-> DefaultCapacity, volumed_calls |-> {}]
    ELSE IF Some(get_host_topology) = req.accessible_topology
    THEN [status |-> "OK", reply |-> DefaultCapacity, volumed_calls |-> {}]
    ELSE LET capacity == get_free_bytes(fault)
    IN IF capacity.status # "OK"
    THEN [status |-> "Internal", volumed_calls |-> {"get_free_bytes"}]
    ELSE [status |-> "OK",
          reply |-> [available_capacity |-> capacity.val,
                     maximum_volume_size |-> None,
                     minimum_volume_size |-> Some(MIN_VOLUME_SIZE_BYTES)],
          volumed_calls |-> {"get_free_bytes"}]

OtherTopology == [segments |-> [host |-> "other-node"]]

\* GetCapacityRequest: access modes of the capabilities, and the topology
GetCapacityRequests ==
    [volume_capabilities :
         {<<>>, <<"SingleNodeWriter">>, <<"Unknown">>, <<"MultiNodeReaderOnly">>,
          <<"MultiNodeSingleWriter">>,
          <<"SingleNodeReaderOnly", "MultiNodeMultiWriter">>},
     accessible_topology :
         {None, Some(get_host_topology), Some(OtherTopology)}]

GetCapacity(req, fault) ==
    LET out == get_capacity(req, fault)
    IN /\ last' = [op |-> "GetCapacity", req |-> req, fault |-> fault,
                   status |-> out.status,
                   reply |-> IF out.status = "OK" THEN Some(out.reply) ELSE None,
                   pre |-> lvs, vg |-> vg,
                   volumed_calls |-> out.volumed_calls]
       /\ UNCHANGED <<ctlVars, faulty, mntVars, calls>>

\* volumed's own GetFreeBytes handler
GetFreeBytes(fault) ==
    LET out == get_free_bytes(fault)
    IN /\ last' = [op |-> "GetFreeBytes", req |-> None, fault |-> fault,
                   status |-> out.status,
                   reply |-> IF out.status = "OK"
                             THEN Some([bytes_free |-> out.val])
                             ELSE None,
                   pre |-> lvs, vg |-> vg]
       /\ UNCHANGED <<ctlVars, faulty, mntVars, calls>>

\* the two capabilities every validation confirms
ConfirmedCapabilities ==
    <<[access_mode |-> "SingleNodeWriter", access_type |-> [kind |-> "Block"]],
      [access_mode |-> "SingleNodeWriter",
       access_type |-> [kind |-> "Mount", fs_type |-> "xfs",
                        mount_flags |-> <<>>, volume_mount_group |-> ""]]>>

validate_volume_capabilities(L, req, fault) ==
    IF req.volume_id = ""
    THEN [status |-> "InvalidArgument"]
    ELSE IF req.volume_capabilities = <<>>
    THEN [status |-> "InvalidArgument"]
    ELSE LET lv == get_logical_volume(
                       L, [kind |-> "Uuid", val |-> req.volume_id], fault)
    IN IF lv.status # "OK"
    THEN [status |-> "NotFound"]
    ELSE [status |-> "OK",
          reply |-> [confirmed |->
                         Some([parameters |-> <<>>,
                               volume_capabilities |-> ConfirmedCapabilities,
                               volume_context |-> [name |-> lv.val.name]]),
                     message |-> ""]]

ValidateRequests ==
    [volume_id : VolumeIds,
     volume_capabilities :
         {<<>>, <<"SingleNodeWriter">>, <<"MultiNodeMultiWriter">>,
          <<"SingleNodeReaderOnly", "Unknown">>}]

ValidateVolumeCapabilities(req, fault) ==
    LET out == validate_volume_capabilities(lvs, req, fault)
    IN /\ last' = [op |-> "ValidateVolumeCapabilities", req |-> req,
                   fault |-> fault, status |-> out.status,
                   reply |-> IF out.status = "OK" THEN Some(out.reply) ELSE None,
                   pre |-> lvs]
       /\ UNCHANGED <<ctlVars, faulty, mntVars, calls>>

\* the handlers below the "Unimplemented below" line
UnimplementedOps ==
    {"ControllerPublishVolume", "ControllerUnpublishVolume", "CreateSnapshot",
     "DeleteSnapshot", "ListSnapshots", "ControllerExpandVolume",
     "ControllerGetVolume"}

unimplemented_default(op) ==
    IF op = "ControllerGetVolume" THEN "OK" ELSE "Unimplemented"
unimplemented(op) == "Unimplemented"

\* the requests carry a volume id at most; no handler reads it
Unimplemented(op, id) ==
    /\ last' = [op |-> op, req |-> [volume_id |-> id], fault |-> NoFault,
                status |-> unimplemented(op), reply |-> None,
                pre |-> lvs, premounts |-> mounts, prefs |-> fs]
    /\ UNCHANGED <<ctlVars, faulty, mntVars, calls>>

----------------------------------------------------------------------------
(* mountd policy (crates/mountd/src/lib.rs)                                *)

\* paths a caller may name; "" is a missing field
DevicePath == "/dev/vg0/lv"
FsPaths == {DevicePath, "/mnt/a", "/mnt/b", "/srv/c", "/gone"}

\* the path's components, as Path::components yields them
Components(path) ==
    CASE path = "/dev/vg0/lv" -> <<"dev", "vg0", "lv">>
      [] path = "/mnt/a"      -> <<"mnt", "a">>
      [] path = "/mnt/b"      -> <<"mnt", "b">>
      [] path = "/srv/c"      -> <<"srv", "c">>
      [] path = "/gone"       -> <<"gone">>
      [] path = "/dev/vg0/8A4C6B2F0E9D7713"
                              -> <<"dev", "vg0", "8A4C6B2F0E9D7713">>

\* Glob::new: the pattern's tokens, or an error for a malformed pattern
GlobNew(pattern) ==
    CASE pattern = "/dev/**" -> Ok(<<"dev", "**">>)
      [] pattern = "/mnt/*"  -> Ok(<<"mnt", "*">>)
      [] pattern = "/**"     -> Ok(<<"**">>)
      [] pattern = "/srv/["  -> Err("BuildError")

\* Glob::is_match: `*` matches one component, `**` any number of them
RECURSIVE GlobMatch(_, _)
GlobMatch(tokens, comps) ==
    IF tokens = <<>>
    THEN comps = <<>>
    ELSE IF Head(tokens) = "**"
    THEN \/ GlobMatch(Tail(tokens), comps)
         \/ comps # <<>> /\ GlobMatch(tokens, Tail(comps))
    ELSE /\ comps # <<>>
         /\ Head(tokens) = "*" \/ Head(tokens) = Head(comps)
         /\ GlobMatch(Tail(tokens), Tail(comps))

\* the closure passed to whitelist.iter().find
PatternMatches(pattern, path) ==
    LET glob == GlobNew(pattern)
    IN IF glob.status # "OK"
       THEN FALSE
       ELSE GlobMatch(glob.val, Components(path))

PathExistsAlways(F, path) == TRUE
PathExists(F, path) == F[path].exists

NotOwnerBad(meta) ==
    meta.uid # mconfig.for_user /\ meta.gid # mconfig.for_group
NotOwner(meta) ==
    meta.uid # mconfig.for_user \/ meta.gid # mconfig.for_group

\* "Ok", or the reason the path cannot be interacted with
ensure_interactable(F, path, readonly) ==
    IF ~PathExists(F, path)
    THEN "path does not exist"
    ELSE LET meta == F[path]
    IN IF readonly /\ meta.readonly
    THEN "path is not readonly, but should be"
    ELSE IF \E i \in 1..Len(mconfig.whitelist) :
                PatternMatches(mconfig.whitelist[i], path)
    THEN "Ok"
    ELSE IF NotOwner(meta)
    THEN "mountpoint is not owned"
    ELSE "Ok"

get_owner_pair == <<mconfig.for_user, mconfig.for_group>>

----------------------------------------------------------------------------
(* mountd handlers (crates/mountd/src/server.rs)                           *)

MountFlagNames == {"Unknown", "Bind", "ReadOnly"}

\* From<MountFlag> for MountFlags
FromMountFlag(flag) ==
    CASE flag = "Unknown"  -> {}
      [] flag = "Bind"     -> {"BIND"}
      [] flag = "ReadOnly" -> {"RDONLY"}

\* mountpaths(): the mount points of the live mount table
mountpaths(M) == {p \in DOMAIN M : M[p].some}

AlreadyMountedNever(M, dst) == FALSE
AlreadyMounted(M, dst) == dst \in mountpaths(M)

NotMountedNever(M, path) == FALSE
NotMounted(M, path) == path \notin mountpaths(M)

\* mount(2): a bind mount needs a directory source, a plain mount a block
\* device
MountSyscallOk(F, src, flags) ==
    IF "BIND" \in flags THEN F[src].kind = "dir" ELSE F[src].kind = "blk"

MntFail(code, F, M) ==
    [status |-> code, fs |-> F, mounts |-> M, syscalls |-> {}]

\* the caller's flags, with NODEV and NOSUID always inserted
GatherFlagsCallerOnly(reqflags) ==
    UNION {FromMountFlag(reqflags[i]) : i \in 1..Len(reqflags)}
GatherFlags(reqflags) ==
    UNION {FromMountFlag(reqflags[i]) : i \in 1..Len(reqflags)}
        \cup {"NODEV", "NOSUID"}

\* the metadata seen at dst once src is mounted there: the bound directory
\* for a bind mount, the root directory of the filesystem otherwise
MountedRoot(F, src, flags) ==
    IF "BIND" \in flags
    THEN F[src]
    ELSE [exists |-> TRUE, kind |-> "dir", uid |-> 0, gid |-> 0,
          readonly |-> FALSE]

Chown(meta, pair) == [meta EXCEPT !.uid = pair[1], !.gid = pair[2]]

mount(F, M, req, fault) ==
    IF fault.at = "mountpaths"
    THEN MntFail("Internal", F, M)
    ELSE IF ~req.mount.some
    THEN MntFail("InvalidArgument", F, M)
    ELSE LET src == req.mount.val.src
             dst == req.mount.val.dst
    IN IF src = ""
    THEN MntFail("InvalidArgument", F, M)
    ELSE IF dst = ""
    THEN MntFail("InvalidArgument", F, M)
    ELSE IF ensure_interactable(F, src, FALSE) # "Ok"
    THEN MntFail("PermissionDenied", F, M)
    ELSE IF ensure_interactable(
                F, dst, \E i \in 1..Len(req.flags) : req.flags[i] = "ReadOnly")
                # "Ok"
    THEN MntFail("PermissionDenied", F, M)
    ELSE IF F[dst].kind # "dir"
    THEN MntFail("FailedPrecondition", F, M)
    ELSE IF AlreadyMounted(M, dst)
    THEN MntFail("OK", F, M)
    ELSE IF \E i \in 1..Len(req.flags) : req.flags[i] \notin MountFlagNames
    THEN MntFail("InvalidArgument", F, M)
    ELSE LET flags == GatherFlags(req.flags)
             call == [call |-> "mount", src |-> src, dst |-> dst, flags |-> flags]
    IN IF fault.at = "mount" \/ ~MountSyscallOk(F, src, flags)
    THEN [status |-> "Internal", fs |-> F, mounts |-> M, syscalls |-> {call}]
    ELSE LET mounted == [M EXCEPT ![dst] =
                            Some([src |-> src, flags |-> flags, under |-> F[dst]])]
             root == MountedRoot(F, src, flags)
    IN IF fault.at = "chown"
    THEN [status |-> "Internal", fs |-> [F EXCEPT ![dst] = root],
          mounts |-> mounted, syscalls |-> {call}]
    ELSE [status |-> "OK",
          fs |-> IF "BIND" \in flags
                 THEN [F EXCEPT ![dst] = Chown(root, get_owner_pair),
                                ![src] = Chown(root, get_owner_pair)]
                 ELSE [F EXCEPT ![dst] = Chown(root, get_owner_pair)],
          mounts |-> mounted, syscalls |-> {call}]

unmount(F, M, req, fault) ==
    IF fault.at = "mountpaths"
    THEN MntFail("Internal", F, M)
    ELSE IF req.path = ""
    THEN MntFail("InvalidArgument", F, M)
    ELSE IF NotMounted(M, req.path)
    THEN MntFail("OK", F, M)
    ELSE IF ensure_interactable(F, req.path, FALSE) # "Ok"
    THEN MntFail("PermissionDenied", F, M)
    ELSE LET call == [call |-> "unmount", path |-> req.path]
    IN IF fault.at = "unmount"
    THEN [status |-> "Internal", fs |-> F, mounts |-> M, syscalls |-> {call}]
    ELSE [status |-> "OK",
          fs |-> [F EXCEPT ![req.path] = M[req.path].val.under],
          mounts |-> [M EXCEPT ![req.path] = None],
          syscalls |-> {call}]

MountdFaultPoints == {"mountpaths", "mount", "chown", "unmount"}

MountdFaults ==
    IF faulty
    THEN {NoFault} \cup [at : MountdFaultPoints, kind : {"Other"}]
    ELSE {NoFault}

Mount(req, fault) ==
    LET out == mount(fs, mounts, req, fault)
    IN /\ fs' = out.fs
       /\ mounts' = out.mounts
       /\ last' = [op |-> "Mount", req |-> req, fault |-> fault,
                   status |-> out.status,
                   pre |-> mounts, prefs |-> fs,
                   syscalls |-> out.syscalls,
                   repeat |-> Repeats("Mount", req),
                   first |-> IF Repeats("Mount", req)
                             THEN [status |-> last.status,
                                   syscalls |-> last.syscalls]
                             ELSE [status |-> "none", syscalls |-> {}]]
       /\ UNCHANGED <<ctlVars, mconfig, faulty, calls>>

Unmount(req, fault) ==
    LET out == unmount(fs, mounts, req, fault)
    IN /\ fs' = out.fs
       /\ mounts' = out.mounts
       /\ last' = [op |-> "Unmount", req |-> req, fault |-> fault,
                   status |-> out.status,
                   pre |-> mounts, prefs |-> fs,
                   syscalls |-> out.syscalls,
                   repeat |-> Repeats("Unmount", req),
                   first |-> IF Repeats("Unmount", req)
                             THEN [status |-> last.status,
                                   syscalls |-> last.syscalls]
                             ELSE [status |-> "none", syscalls |-> {}]]
       /\ UNCHANGED <<ctlVars, mconfig, faulty, calls>>

----------------------------------------------------------------------------
(* Initial states                                                          *)

NoCall ==
    [op |-> "none", req |-> None, fault |-> NoFault, status |-> "none",
     reply |-> None, pre |-> {}, format_calls |-> {}, repeat |-> FALSE,
     first |-> [status |-> "none", reply |-> None]]

\* a volume of another volume group; its name may equal a safe name
ForeignLvs ==
    {[uuid |-> ForeignUuid, name |-> nm, capacity_bytes |-> MIN_VOLUME_SIZE_BYTES,
      volume_group |-> ForeignVg, tags |-> <<>>] :
        nm \in {hash_resource("a"), "scratch"}}

VgCapacities == {3 * MIN_VOLUME_SIZE_BYTES}

SpareBytes == {None, Some(MIN_VOLUME_SIZE_BYTES)}

\* volumed's main refuses to start unless capacity_bytes > spare_bytes
InitVolumed ==
    /\ \E f \in ForeignLvs : lvs = {f}
    /\ nextUuid = 1
    /\ \E c \in VgCapacities : vg = [name |-> ManagedVg, capacity_bytes |-> c]
    /\ \E s \in SpareBytes :
          /\ vconfig = [volume_group |-> ManagedVg, spare_bytes |-> s]
          /\ s.some => vg.capacity_bytes > s.val

InitMountdIdle ==
    /\ fs = <<>>
    /\ mounts = <<>>
    /\ mconfig = <<>>

InitController ==
    /\ InitVolumed
    /\ InitMountdIdle
    /\ faulty = FALSE
    /\ last = NoCall
    /\ calls = <<>>

NextController ==
    \/ \E req \in CreateVolumeRequests :
          \E fault \in Faults(VolumedFaultPoints) : CreateVolume(req, fault)
    \/ \E id \in VolumeIds :
          \E fault \in Faults(VolumedFaultPoints) :
              DeleteVolume([volume_id |-> id], fault)

SpecController == InitController /\ [][NextController]_vars

----------------------------------------------------------------------------
(* The controller's queries, over a volume group the host may resize       *)

RECURSIVE SumCapacity(_)
SumCapacity(S) ==
    IF S = {}
    THEN 0
    ELSE LET lv == CHOOSE x \in S : TRUE
         IN lv.capacity_bytes + SumCapacity(S \ {lv})

\* capacities vg_injector may find when it re-reads the volume group
ResizedCapacities ==
    {0, MIN_VOLUME_SIZE_BYTES, 3 * MIN_VOLUME_SIZE_BYTES}

\* the host resizes the volume group (never below what its volumes hold)
\* between two requests; vg_injector reads it anew for every request
VgResize(c) ==
    /\ c # vg.capacity_bytes
    /\ c >= SumCapacity({lv \in lvs : lv.volume_group = vg.name})
    /\ vg' = [vg EXCEPT !.capacity_bytes = c]
    /\ UNCHANGED <<lvs, nextUuid, vconfig, faulty, mntVars, calls, last>>

QueryCreateRequests ==
    [name : {"a", "b"}, volume_capabilities : {<<"SingleNodeWriter">>},
     capacity_range : {None}]

InitQueries == InitController

NextQueries ==
    \/ \E req \in QueryCreateRequests :
          /\ SumCapacity({lv \in lvs : lv.volume_group = vg.name})
                 + MIN_VOLUME_SIZE_BYTES <= vg.capacity_bytes
          /\ CreateVolume(req, NoFault)
    \/ \E id \in VolumeIds : DeleteVolume([volume_id |-> id], NoFault)
    \/ \E c \in ResizedCapacities : VgResize(c)
    \/ \E req \in ListVolumesRequests : ListVolumes(req, NoFault)
    \/ \E req \in GetCapacityRequests : GetCapacity(req, NoFault)
    \/ GetFreeBytes(NoFault)
    \/ \E req \in ValidateRequests : ValidateVolumeCapabilities(req, NoFault)
    \/ \E op \in UnimplementedOps :
          \E id \in {Uuid(1)} : Unimplemented(op, id)

SpecQueries == InitQueries /\ [][NextQueries]_vars

----------------------------------------------------------------------------
(* The Controller over a host whose volume manager commands may fail       *)

InitFaulty ==
    /\ InitVolumed
    /\ InitMountdIdle
    /\ faulty = TRUE
    /\ last = NoCall
    /\ calls = <<>>

NextFaulty ==
    \/ \E req \in QueryCreateRequests :
          \E fault \in Faults(VolumedFaultPoints) :
              /\ SumCapacity({lv \in lvs : lv.volume_group = vg.name})
                     + MIN_VOLUME_SIZE_BYTES <= vg.capacity_bytes
              /\ CreateVolume(req, fault)
    \/ \E id \in VolumeIds :
          \E fault \in Faults({"get_logical_volume", "delete_logical_volume"}) :
              DeleteVolume([volume_id |-> id], fault)
    \/ \E req \in [max_entries : {0, 1}, starting_token : {""}] :
          \E fault \in Faults({"get_lv_list"}) : ListVolumes(req, fault)
    \/ \E req \in [volume_capabilities : {<<"SingleNodeWriter">>},
                   accessible_topology : {None}] :
          \E fault \in Faults({"get_free_bytes"}) : GetCapacity(req, fault)
    \/ \E req \in [volume_id : VolumeIds,
                   volume_capabilities : {<<"SingleNodeWriter">>}] :
          \E fault \in Faults({"get_logical_volume"}) :
              ValidateVolumeCapabilities(req, fault)

SpecFaulty == InitFaulty /\ [][NextFaulty]_vars

----------------------------------------------------------------------------
(* Provisioning: CreateVolume and DeleteVolume over a group of fixed size  *)

ProvisionRequests ==
    [name : {"a", "b"}, volume_capabilities : {<<"SingleNodeWriter">>},
     capacity_range :
         {None}
         \cup {Some([required_bytes |-> r, limit_bytes |-> 0]) :
                   r \in {MIN_VOLUME_SIZE_BYTES, 2 * MIN_VOLUME_SIZE_BYTES,
                          3 * MIN_VOLUME_SIZE_BYTES}}]

\* lvcreate has no room for the volume the request would create: the
\* extents of the group not yet allocated are fewer than the request needs
NoRoom(req) ==
    /\ LvFromId(lvs, vg.name, hash_resource(req.name)) = {}
    /\ ParseCapacityRange(req.capacity_range).val[1]
           > vg.capacity_bytes
                 - SumCapacity({lv \in lvs : lv.volume_group = vg.name})

NextProvision ==
    \/ \E req \in ProvisionRequests :
          \E lvcreate \in {"ok", "Command", "Other"} :
              /\ NoRoom(req) <=> lvcreate # "ok"
              /\ CreateVolume(req,
                              IF lvcreate = "ok"
                              THEN NoFault
                              ELSE [at |-> "create_logical_volume",
                                    kind |-> lvcreate])
    \/ \E id \in VolumeIds : DeleteVolume([volume_id |-> id], NoFault)

SpecProvision == InitController /\ [][NextProvision]_vars

----------------------------------------------------------------------------
(* Two CreateVolume calls in flight: one step per await of create_volume   *)

Callers == {1, 2}

\* the request both callers send: one name, one valid capacity
ConcurrentRequests ==
    [name : {"a", "b"}, volume_capabilities : {<<"SingleNodeWriter">>},
     capacity_range :
         {None, Some([required_bytes |-> 2 * MIN_VOLUME_SIZE_BYTES,
                      limit_bytes |-> 0])}]

Entered(req) ==
    [pc |-> "get_free_bytes", req |-> req, volume |-> None,
     status |-> "none", reply |-> None, rejected |-> FALSE]

Returned(call, code, reply) ==
    [call EXCEPT !.pc = "done", !.status = code, !.reply = reply]

\* argument checks, then get_free_bytes().await and the range checks
CallGetFreeBytes(p) ==
    LET call == calls[p]
        parsed == ParseCapacityRange(call.req.capacity_range)
        total_capacity == get_free_bytes(NoFault)
    IN /\ call.pc = "get_free_bytes"
       /\ calls' = [calls EXCEPT ![p] =
             IF call.req.name = "" \/ call.req.volume_capabilities = <<>>
             THEN Returned(call, "InvalidArgument", None)
             ELSE IF parsed.status # "OK"
             THEN Returned(call, parsed.status, None)
             ELSE IF total_capacity.status # "OK"
             THEN Returned(call, "Internal", None)
             ELSE IF \/ BelowMinimum(parsed.val[1])
                     \/ ExceedsFree(parsed.val[1], total_capacity.val)
             THEN Returned(call, "OutOfRange", None)
             ELSE [call EXCEPT !.pc = "get_logical_volume"]]
       /\ UNCHANGED <<ctlVars, faulty, mntVars, last>>

\* get_logical_volume(Name(safe_name)).await and the match on its result
CallGetLogicalVolume(p) ==
    LET call == calls[p]
        capacity == ParseCapacityRange(call.req.capacity_range).val[1]
        volume == get_logical_volume(
                      lvs, [kind |-> "Name", val |-> hash_resource(call.req.name)],
                      NoFault)
    IN /\ call.pc = "get_logical_volume"
       /\ calls' = [calls EXCEPT ![p] =
             IF volume.status = "OK"
             THEN IF CapacityDiffers(volume.val, capacity)
                  THEN Returned(call, "AlreadyExists", None)
                  ELSE [call EXCEPT !.pc = "format_logical_volume",
                                    !.volume = Some(volume.val)]
             ELSE IF volume.status = "NotFound"
             THEN [call EXCEPT !.pc = "create_logical_volume"]
             ELSE Returned(call, volume.status, None)]
       /\ UNCHANGED <<ctlVars, faulty, mntVars, last>>

\* create_logical_volume(..).await?: lvcreate on a name the group already
\* holds fails with an LVMError that is Command or another variant
CallCreateLogicalVolume(p, kind) ==
    LET call == calls[p]
        safe_name == hash_resource(call.req.name)
        taken == NameTaken(lvs, vg.name, safe_name)
        made == create_logical_volume(
                    lvs, nextUuid,
                    [name |-> safe_name,
                     capacity |-> ParseCapacityRange(call.req.capacity_range).val[1],
                     tags |-> <<"name=" \o call.req.name>>],
                    IF taken
                    THEN [at |-> "create_logical_volume", kind |-> kind]
                    ELSE NoFault)
    IN /\ call.pc = "create_logical_volume"
       /\ ~taken => kind = "Other"
       /\ made.n <= MaxCreates + 1
       /\ lvs' = made.L
       /\ nextUuid' = made.n
       /\ calls' = [calls EXCEPT ![p] =
             IF made.status # "OK"
             THEN [Returned(call, made.status, None) EXCEPT !.rejected = taken]
             ELSE [call EXCEPT !.pc = "format_logical_volume",
                               !.volume = Some(made.val)]]
       /\ UNCHANGED <<vg, vconfig, faulty, mntVars, last>>

\* format_logical_volume(..).await?, then the reply
CallFormatLogicalVolume(p) ==
    LET call == calls[p]
        f == format_logical_volume(lvs, hash_resource(call.req.name), NoFault)
    IN /\ call.pc = "format_logical_volume"
       /\ calls' = [calls EXCEPT ![p] =
             IF f.status # "OK"
             THEN Returned(call, f.status, None)
             ELSE Returned(call, "OK", Some(process_volume(call.volume.val)))]
       /\ UNCHANGED <<ctlVars, faulty, mntVars, last>>

\* both calls arrive while no volume holds the name
InitConcurrent ==
    /\ InitVolumed
    /\ InitMountdIdle
    /\ faulty = FALSE
    /\ last = NoCall
    /\ \E req \in ConcurrentRequests :
          /\ LvFromId(lvs, vg.name, hash_resource(req.name)) = {}
          /\ calls = [p \in Callers |-> Entered(req)]

NextConcurrent ==
    \/ \E p \in Callers : CallGetFreeBytes(p)
    \/ \E p \in Callers : CallGetLogicalVolume(p)
    \/ \E p \in Callers :
          \E kind \in {"Command", "Other"} : CallCreateLogicalVolume(p, kind)
    \/ \E p \in Callers : CallFormatLogicalVolume(p)

SpecConcurrent == InitConcurrent /\ [][NextConcurrent]_vars

----------------------------------------------------------------------------
(* Two DeleteVolume calls in flight: one step per await of delete_volume   *)

EnteredDelete(req) ==
    [pc |-> "get_logical_volume", req |-> req, volume |-> None,
     status |-> "none", reply |-> None, rejected |-> FALSE]

\* the volume id check, then get_logical_volume(Uuid(id)).await.ok()
CallLookupForDelete(p) ==
    LET call == calls[p]
        volume == get_logical_volume(
                      lvs, [kind |-> "Uuid", val |-> call.req.volume_id], NoFault)
    IN /\ call.pc = "get_logical_volume"
       /\ calls' = [calls EXCEPT ![p] =
             IF call.req.volume_id = ""
             THEN Returned(call, "InvalidArgument", None)
             ELSE IF volume.status = "OK"
             THEN [call EXCEPT !.pc = "delete_logical_volume",
                               !.volume = Some(volume.val)]
             ELSE Returned(call, "OK", None)]
       /\ UNCHANGED <<ctlVars, faulty, mntVars, last>>

\* delete_logical_volume(name).await?, then the reply
CallDeleteLogicalVolume(p) ==
    LET call == calls[p]
        gone == delete_logical_volume(lvs, call.volume.val.name, NoFault)
    IN /\ call.pc = "delete_logical_volume"
       /\ lvs' = gone.L
       /\ calls' = [calls EXCEPT ![p] =
             IF gone.status # "OK"
             THEN Returned(call, gone.status, None)
             ELSE Returned(call, "OK", None)]
       /\ UNCHANGED <<nextUuid, vg, vconfig, faulty, mntVars, last>>

\* both calls arrive after one CreateVolume has made the volume lv-uuid-1
InitConcurrentDelete ==
    /\ \E f \in ForeignLvs : \E name \in {"a", "b"} :
          \E capacity \in {MIN_VOLUME_SIZE_BYTES, 2 * MIN_VOLUME_SIZE_BYTES} :
              lvs = {f, [uuid |-> Uuid(1), name |-> hash_resource(name),
                         capacity_bytes |-> capacity,
                         volume_group |-> ManagedVg,
                         tags |-> <<"name=" \o name>>]}
    /\ nextUuid = 2
    /\ \E c \in VgCapacities : vg = [name |-> ManagedVg, capacity_bytes |-> c]
    /\ \E s \in SpareBytes :
          /\ vconfig = [volume_group |-> ManagedVg, spare_bytes |-> s]
          /\ s.some => vg.capacity_bytes > s.val
    /\ InitMountdIdle
    /\ faulty = FALSE
    /\ last = NoCall
    /\ \E ids \in [Callers -> {"", "not-a-uuid", ForeignUuid, Uuid(1), Uuid(2)}] :
          calls = [p \in Callers |-> EnteredDelete([volume_id |-> ids[p]])]

NextConcurrentDelete ==
    \/ \E p \in Callers : CallLookupForDelete(p)
    \/ \E p \in Callers : CallDeleteLogicalVolume(p)

SpecConcurrentDelete == InitConcurrentDelete /\ [][NextConcurrentDelete]_vars

----------------------------------------------------------------------------
(* mountd: initial states and requests                                     *)

OwnerUid == 1000
OwnerGid == 100

Missing ==
    [exists |-> FALSE, kind |-> "none", uid |-> 0, gid |-> 0, readonly |-> FALSE]

Meta(kind, uid, gid, readonly) ==
    [exists |-> TRUE, kind |-> kind, uid |-> uid, gid |-> gid,
     readonly |-> readonly]

\* what the caller-prepared directory /mnt/a may look like
Profiles ==
    {Missing,
     Meta("dir", OwnerUid, OwnerGid, FALSE),
     Meta("dir", OwnerUid, OwnerGid, TRUE),
     Meta("dir", OwnerUid, 0, FALSE),
     Meta("dir", 0, OwnerGid, FALSE),
     Meta("dir", 0, 0, TRUE),
     Meta("file", OwnerUid, OwnerGid, FALSE)}

Whitelists ==
    {<<>>, <<"/dev/**">>, <<"/srv/[", "/dev/**", "/mnt/*">>, <<"/**">>}

\* /srv/c may carry a mount that another party put there
ForeignMounts ==
    {None,
     Some([src |-> "/dev/sdb1", flags |-> {}, under |-> Meta("dir", 0, 0, FALSE)])}

InitMountd ==
    /\ \E w \in Whitelists :
          mconfig = [for_user |-> OwnerUid, for_group |-> OwnerGid, whitelist |-> w]
    /\ \E prof \in Profiles :
          fs = [p \in FsPaths |->
                  CASE p = DevicePath -> Meta("blk", 0, 0, FALSE)
                    [] p = "/mnt/a"   -> prof
                    [] p = "/mnt/b"   -> Meta("dir", OwnerUid, OwnerGid, FALSE)
                    [] p = "/srv/c"   -> Meta("dir", 0, 0, FALSE)
                    [] p = "/gone"    -> Missing]
    /\ \E m \in ForeignMounts :
          mounts = [p \in FsPaths |-> IF p = "/srv/c" THEN m ELSE None]

InitVolumedIdle ==
    /\ lvs = {}
    /\ nextUuid = 1
    /\ vg = [name |-> ManagedVg, capacity_bytes |-> 3 * MIN_VOLUME_SIZE_BYTES]
    /\ vconfig = [volume_group |-> ManagedVg, spare_bytes |-> None]

\* MountRequest: staging a device, publishing a staged directory, and
\* requests with a missing or unusable field
MountRequests ==
    [mount : {Some([src |-> DevicePath, dst |-> d]) :
                  d \in {"", "/mnt/a", "/srv/c", "/gone"}},
     flags : {<<>>, <<"ReadOnly">>, <<"Unknown">>, <<"Invalid">>}]
    \cup [mount : {Some([src |-> "/mnt/a", dst |-> "/mnt/b"])},
          flags : {<<"Bind">>, <<"Bind", "ReadOnly">>, <<>>}]
    \cup [mount : {Some([src |-> s, dst |-> "/mnt/b"]) :
                      s \in {"", "/gone", "/srv/c"}},
          flags : {<<"Bind">>}]
    \cup [mount : {None}, flags : {<<>>}]

UnmountRequests == [path : {""} \cup (FsPaths \ {DevicePath})]

InitMountdSpec ==
    /\ InitVolumedIdle
    /\ InitMountd
    /\ faulty = FALSE
    /\ last = NoCall
    /\ calls = <<>>

NextMountd ==
    \/ \E req \in MountRequests : \E fault \in MountdFaults : Mount(req, fault)
    \/ \E req \in UnmountRequests : \E fault \in MountdFaults : Unmount(req, fault)

SpecMountd == InitMountdSpec /\ [][NextMountd]_vars

\* mountd over a host whose mountpaths, mount, chown and unmount calls may
\* fail
InitMountdFaulty ==
    /\ InitVolumedIdle
    /\ \E w \in {<<>>, <<"/dev/**">>} :
          mconfig = [for_user |-> OwnerUid, for_group |-> OwnerGid, whitelist |-> w]
    /\ \E prof \in {Meta("dir", OwnerUid, OwnerGid, FALSE),
                     Meta("dir", 0, 0, FALSE)} :
          fs = [p \in FsPaths |->
                  CASE p = DevicePath -> Meta("blk", 0, 0, FALSE)
                    [] p = "/mnt/a"   -> prof
                    [] p = "/mnt/b"   -> Meta("dir", OwnerUid, OwnerGid, FALSE)
                    [] p = "/srv/c"   -> Meta("dir", 0, 0, FALSE)
                    [] p = "/gone"    -> Missing]
    /\ mounts = [p \in FsPaths |-> None]
    /\ faulty = TRUE
    /\ last = NoCall
    /\ calls = <<>>

NextMountdFaulty ==
    \/ \E req \in [mount : {Some([src |-> DevicePath, dst |-> d]) :
                              d \in {"/mnt/a", "/mnt/b"}},
                   flags : {<<>>, <<"ReadOnly">>}]
                  \cup [mount : {Some([src |-> "/mnt/a", dst |-> "/mnt/b"])},
                        flags : {<<"Bind">>}] :
          \E fault \in MountdFaults : Mount(req, fault)
    \/ \E req \in [path : {"/mnt/a", "/mnt/b"}] :
          \E fault \in MountdFaults : Unmount(req, fault)

SpecMountdFaulty == InitMountdFaulty /\ [][NextMountdFaulty]_vars

----------------------------------------------------------------------------
(* Node handlers (crates/csi/src/node.rs) over mountd                      *)

\* lv.path: the device node of a logical volume
LvPath(lv) == "/dev/" \o lv.volume_group \o "/" \o lv.name

\* mountd's get_lvm_block_path
get_lvm_block_path(L, uuid, fault) ==
    IF ~IsResourceUUID(uuid)
    THEN Err("InvalidArgument")
    ELSE IF fault.at = "get_lvm_block_path"
    THEN Err(IF fault.kind = "NotFound" THEN "NotFound" ELSE "Internal")
    ELSE IF LvFromUuid(L, uuid) = {}
    THEN Err("NotFound")
    ELSE Ok(LvPath(CHOOSE lv \in LvFromUuid(L, uuid) : TRUE))

\* Path::exists as the Node process sees it
NodeExists(F, path) == path \in DOMAIN F /\ F[path].exists

\* tokio::fs::create_dir_all: a missing directory is created and belongs
\* to the Node process, which runs as the user mountd is configured for
CreateDirAllNoop(F, path) == Ok(F)
CreateDirAll(F, path) ==
    IF path = ""
    THEN Ok(F)
    ELSE IF ~F[path].exists
    THEN Ok([F EXCEPT ![path] =
                [exists |-> TRUE, kind |-> "dir", uid |-> mconfig.for_user,
                 gid |-> mconfig.for_group, readonly |-> FALSE]])
    ELSE IF F[path].kind = "dir"
    THEN Ok(F)
    ELSE Err("AlreadyExists")

\* tokio::fs::remove_dir(..).ok(): removes a directory that is not a mount
\* point; any failure is ignored
RemoveDir(F, M, path) ==
    IF NodeExists(F, path) /\ F[path].kind = "dir" /\ path \notin mountpaths(M)
    THEN [F EXCEPT ![path] =
             [exists |-> FALSE, kind |-> "none", uid |-> 0, gid |-> 0,
              readonly |-> FALSE]]
    ELSE F

\* the read-only flag derived from the capability's access mode
IsReadOnly(capability) == capability.val = "SingleNodeReaderOnly"

node_stage_volume(L, F, M, req, fault) ==
    IF req.volume_id = ""
    THEN MntFail("InvalidArgument", F, M)
    ELSE IF req.staging_target_path = ""
    THEN MntFail("InvalidArgument", F, M)
    ELSE IF ~req.volume_capability.some
    THEN MntFail("InvalidArgument", F, M)
    ELSE LET block_device == get_lvm_block_path(L, req.volume_id, fault)
    IN IF block_device.status # "OK"
    THEN MntFail(block_device.status, F, M)
    ELSE IF ~NodeExists(F, block_device.val)
    THEN MntFail("FailedPrecondition", F, M)
    ELSE IF ~NodeExists(F, req.staging_target_path)
    THEN MntFail("FailedPrecondition", F, M)
    ELSE mount(F, M,
               [mount |-> Some([src |-> block_device.val,
                                dst |-> req.staging_target_path]),
                flags |-> IF IsReadOnly(req.volume_capability)
                          THEN <<"ReadOnly">> ELSE <<>>],
               fault)

node_unstage_volume(L, F, M, req, fault) ==
    IF req.volume_id = ""
    THEN MntFail("InvalidArgument", F, M)
    ELSE IF req.staging_target_path = ""
    THEN MntFail("InvalidArgument", F, M)
    ELSE LET block_device == get_lvm_block_path(L, req.volume_id, fault)
    IN IF block_device.status # "OK"
    THEN MntFail(block_device.status, F, M)
    ELSE IF ~NodeExists(F, block_device.val)
    THEN MntFail("FailedPrecondition", F, M)
    ELSE unmount(F, M, [path |-> req.staging_target_path], fault)

node_publish_volume(L, F, M, req, fault) ==
    IF req.volume_id = ""
    THEN MntFail("InvalidArgument", F, M)
    ELSE IF req.staging_target_path = ""
    THEN MntFail("InvalidArgument", F, M)
    ELSE IF ~req.volume_capability.some
    THEN MntFail("InvalidArgument", F, M)
    ELSE LET block_device == get_lvm_block_path(L, req.volume_id, fault)
    IN IF block_device.status # "OK"
    THEN MntFail(block_device.status, F, M)
    ELSE LET made == CreateDirAll(F, req.target_path)
    IN IF made.status # "OK"
    THEN MntFail("Internal", F, M)
    ELSE IF ~NodeExists(made.val, req.staging_target_path)
    THEN MntFail("FailedPrecondition", made.val, M)
    ELSE mount(made.val, M,
               [mount |-> Some([src |-> req.staging_target_path,
                                dst |-> req.target_path]),
                flags |-> <<"Bind">> \o (IF IsReadOnly(req.volume_capability)
                                         THEN <<"ReadOnly">> ELSE <<>>)],
               fault)

node_unpublish_volume(L, F, M, req, fault) ==
    IF req.volume_id = ""
    THEN MntFail("InvalidArgument", F, M)
    ELSE IF req.target_path = ""
    THEN MntFail("InvalidArgument", F, M)
    ELSE LET block_device == get_lvm_block_path(L, req.volume_id, fault)
    IN IF block_device.status # "OK"
    THEN MntFail(block_device.status, F, M)
    ELSE LET out == unmount(F, M, [path |-> req.target_path], fault)
    IN IF out.status # "OK"
    THEN out
    ELSE [out EXCEPT !.fs = RemoveDir(out.fs, out.mounts, req.target_path)]

----------------------------------------------------------------------------
(* One host: Controller, volumed, Node and mountd over the same volumes    *)

\* the end-to-end scenario: one volume of 1 GiB, staged and published
ScenarioCreate ==
    [name |-> "a", volume_capabilities |-> <<"SingleNodeWriter">>,
     capacity_range |-> Some([required_bytes |-> 2 * MIN_VOLUME_SIZE_BYTES,
                              limit_bytes |-> 0])]

ScenarioDevice == "/dev/" \o ManagedVg \o "/" \o hash_resource("a")
StagingPath == "/mnt/a"
TargetPath == "/mnt/b"

HostPaths == {ScenarioDevice, StagingPath, TargetPath, "/gone"}

\* lvcreate (activate: true) and lvremove make device nodes come and go
Udev(F, L) ==
    [p \in DOMAIN F |->
        IF p = ScenarioDevice
        THEN IF \E lv \in L : LvPath(lv) = p
             THEN Meta("blk", 0, 0, FALSE)
             ELSE Missing
        ELSE F[p]]

\* the request of the scenario's k-th call, for the volume id CreateVolume
\* returned
ScenarioStep(k, id) ==
    CASE k = 1 -> <<"CreateVolume", ScenarioCreate>>
      [] k = 2 -> <<"NodeStageVolume",
                    [volume_id |-> id, staging_target_path |-> StagingPath,
                     volume_capability |-> Some("SingleNodeWriter")]>>
      [] k = 3 -> <<"NodePublishVolume",
                    [volume_id |-> id, staging_target_path |-> StagingPath,
                     target_path |-> TargetPath,
                     volume_capability |-> Some("SingleNodeWriter")]>>
      [] k = 4 -> <<"NodeUnpublishVolume",
                    [volume_id |-> id, target_path |-> TargetPath]>>
      [] k = 5 -> <<"NodeUnstageVolume",
                    [volume_id |-> id, staging_target_path |-> StagingPath]>>
      [] k = 6 -> <<"DeleteVolume", [volume_id |-> id]>>
      [] k = 7 -> <<"ListVolumes", [max_entries |-> 0, starting_token |-> ""]>>

\* no volume, no mount, the staging directory pre-created by the caller,
\* no target directory yet, and a mount policy that admits the staging
\* directory and the volume's device
CleanHost ==
    /\ {lv \in lvs : lv.volume_group = vg.name} = {}
    /\ mountpaths(mounts) = {}
    /\ fs[StagingPath].exists
    /\ fs[StagingPath].kind = "dir"
    /\ ensure_interactable(fs, StagingPath, FALSE) = "Ok"
    /\ ~fs[TargetPath].exists
    /\ \E i \in 1..Len(mconfig.whitelist) :
          PatternMatches(mconfig.whitelist[i], ScenarioDevice)

NoChain == [step |-> 0, id |-> ""]

\* how far the calls served so far follow the scenario
Advance(op, req, id) ==
    IF <<op, req>> = ScenarioStep(1, "") /\ CleanHost
    THEN [step |-> 1, id |-> id]
    ELSE IF /\ last.chain.step \in 1..6
            /\ <<op, req>> = ScenarioStep(last.chain.step + 1, last.chain.id)
    THEN [step |-> last.chain.step + 1, id |-> last.chain.id]
    ELSE NoChain

Served(op, req, status, reply, syscalls, chain) ==
    [op |-> op, req |-> req, fault |-> NoFault, status |-> status,
     reply |-> reply, pre |-> lvs, premounts |-> mounts, prefs |-> fs,
     syscalls |-> syscalls, chain |-> chain]

\* mkfs.xfs may refuse a device whose filesystem is mounted; on a device
\* that is not mounted it succeeds
HostCreateVolume(req, mkfs) ==
    LET held == \E lv \in LvFromId(lvs, vg.name, hash_resource(req.name)) :
                    \E p \in mountpaths(mounts) : mounts[p].val.src = LvPath(lv)
        out == create_volume(
                   lvs, nextUuid, req,
                   IF mkfs = "ok"
                   THEN NoFault
                   ELSE [at |-> "format_logical_volume", kind |-> mkfs])
    IN /\ ~held => mkfs = "ok"
       /\ out.n <= MaxCreates + 1
       /\ lvs' = out.L
       /\ nextUuid' = out.n
       /\ fs' = Udev(fs, out.L)
       /\ last' = Served("CreateVolume", req, out.status,
                         IF out.status = "OK" THEN Some(out.volume) ELSE None,
                         {[call |-> "mkfs.xfs", name |-> n] :
                              n \in out.format_calls},
                         Advance("CreateVolume", req,
                                 IF out.status = "OK"
                                 THEN out.volume.volume_id ELSE ""))
       /\ UNCHANGED <<vg, vconfig, mounts, mconfig, faulty, calls>>

\* lvremove refuses a volume whose filesystem is mounted; once only a bind
\* mount may still hold it, either outcome is possible
HostDeleteVolume(req, lvremove) ==
    LET found == LvFromUuid(lvs, req.volume_id)
        held == \E lv \in found : \E p \in mountpaths(mounts) :
                    mounts[p].val.src = LvPath(lv)
        bound == \E p \in mountpaths(mounts) : "BIND" \in mounts[p].val.flags
        out == delete_volume(
                   lvs, req,
                   IF lvremove = "ok"
                   THEN NoFault
                   ELSE [at |-> "delete_logical_volume", kind |-> lvremove])
    IN /\ held => lvremove # "ok"
       /\ (~held /\ ~bound) => lvremove = "ok"
       /\ lvs' = out.L
       /\ fs' = Udev(fs, out.L)
       /\ last' = Served("DeleteVolume", req, out.status, None, {},
                         Advance("DeleteVolume", req, ""))
       /\ UNCHANGED <<nextUuid, vg, vconfig, mounts, mconfig, faulty, calls>>

HostListVolumes(req) ==
    LET out == list_volumes(lvs, req, NoFault)
    IN /\ last' = Served("ListVolumes", req, out.status,
                         IF out.status = "OK"
                         THEN Some([entries |-> out.entries,
                                    next_token |-> out.next_token])
                         ELSE None,
                         {},
                         Advance("ListVolumes", req, ""))
       /\ UNCHANGED <<ctlVars, mntVars, faulty, calls>>

NodeStageVolume(req) ==
    LET out == node_stage_volume(lvs, fs, mounts, req, NoFault)
    IN /\ fs' = out.fs
       /\ mounts' = out.mounts
       /\ last' = Served("NodeStageVolume", req, out.status, None, out.syscalls,
                         Advance("NodeStageVolume", req, ""))
       /\ UNCHANGED <<ctlVars, mconfig, faulty, calls>>

NodeUnstageVolume(req) ==
    LET out == node_unstage_volume(lvs, fs, mounts, req, NoFault)
    IN /\ fs' = out.fs
       /\ mounts' = out.mounts
       /\ last' = Served("NodeUnstageVolume", req, out.status, None, out.syscalls,
                         Advance("NodeUnstageVolume", req, ""))
       /\ UNCHANGED <<ctlVars, mconfig, faulty, calls>>

NodePublishVolume(req) ==
    LET out == node_publish_volume(lvs, fs, mounts, req, NoFault)
    IN /\ fs' = out.fs
       /\ mounts' = out.mounts
       /\ last' = Served("NodePublishVolume", req, out.status, None, out.syscalls,
                         Advance("NodePublishVolume", req, ""))
       /\ UNCHANGED <<ctlVars, mconfig, faulty, calls>>

NodeUnpublishVolume(req) ==
    LET out == node_unpublish_volume(lvs, fs, mounts, req, NoFault)
    IN /\ fs' = out.fs
       /\ mounts' = out.mounts
       /\ last' = Served("NodeUnpublishVolume", req, out.status, None, out.syscalls,
                         Advance("NodeUnpublishVolume", req, ""))
       /\ UNCHANGED <<ctlVars, mconfig, faulty, calls>>

\* todo!(): the handler panics where it stands; it produces no reply and
\* no status, and touches nothing
todo == [status |-> "Panic", panicked |-> TRUE]

node_get_volume_stats(req) == todo

node_expand_volume(req) == todo

NodeGetVolumeStats(req) ==
    LET out == node_get_volume_stats(req)
    IN /\ last' = Served("NodeGetVolumeStats", req, out.status, None, {},
                         Advance("NodeGetVolumeStats", req, ""))
       /\ UNCHANGED <<ctlVars, mntVars, faulty, calls>>

NodeExpandVolume(req) ==
    LET out == node_expand_volume(req)
    IN /\ last' = Served("NodeExpandVolume", req, out.status, None, {},
                         Advance("NodeExpandVolume", req, ""))
       /\ UNCHANGED <<ctlVars, mntVars, faulty, calls>>

\* volume ids the Node is asked about: the first two lvcreate hands out
NodeVolumeIds == {Uuid(1), Uuid(2)}

NodeCapabilities == {Some("SingleNodeWriter"), Some("SingleNodeReaderOnly")}

StageRequests ==
    [volume_id : NodeVolumeIds, staging_target_path : {StagingPath, "/gone"},
     volume_capability : NodeCapabilities]
    \cup [volume_id : {"", Uuid(1)}, staging_target_path : {"", StagingPath},
          volume_capability : {None}]

UnstageRequests ==
    [volume_id : {""} \cup NodeVolumeIds, staging_target_path : {"", StagingPath}]

PublishRequests ==
    [volume_id : NodeVolumeIds, staging_target_path : {StagingPath, "/gone"},
     target_path : {TargetPath}, volume_capability : NodeCapabilities]
    \cup [volume_id : {"", Uuid(1)}, staging_target_path : {"", StagingPath},
          target_path : {"", TargetPath}, volume_capability : {None}]

UnpublishRequests ==
    [volume_id : {""} \cup NodeVolumeIds, target_path : {"", TargetPath}]

\* the staging directory: not created, created by the Node's user, or
\* created by root
StagingProfiles ==
    {Missing, Meta("dir", OwnerUid, OwnerGid, FALSE), Meta("dir", 0, 0, FALSE)}

InitHost ==
    /\ InitVolumedIdle
    /\ \E w \in {<<>>, <<"/dev/**">>} :
          mconfig = [for_user |-> OwnerUid, for_group |-> OwnerGid, whitelist |-> w]
    /\ \E prof \in StagingProfiles :
          fs = [p \in HostPaths |-> IF p = StagingPath THEN prof ELSE Missing]
    /\ mounts = [p \in HostPaths |-> None]
    /\ faulty = FALSE
    /\ last = Served("none", None, "none", None, {}, NoChain)
    /\ calls = <<>>

NextHost ==
    \/ \E req \in {ScenarioCreate, [ScenarioCreate EXCEPT !.capacity_range = None]} :
          \E mkfs \in {"ok", "Other"} : HostCreateVolume(req, mkfs)
    \/ \E id \in NodeVolumeIds :
          \E lvremove \in {"ok", "Command", "Other"} :
              HostDeleteVolume([volume_id |-> id], lvremove)
    \/ HostListVolumes([max_entries |-> 0, starting_token |-> ""])
    \/ \E req \in StageRequests : NodeStageVolume(req)
    \/ \E req \in UnstageRequests : NodeUnstageVolume(req)
    \/ \E req \in PublishRequests : NodePublishVolume(req)
    \/ \E req \in UnpublishRequests : NodeUnpublishVolume(req)
    \/ \E req \in [volume_id : {Uuid(1)}, volume_path : {TargetPath}] :
          NodeGetVolumeStats(req)
    \/ \E req \in [volume_id : {Uuid(1)}, volume_path : {TargetPath}] :
          NodeExpandVolume(req)

SpecHost == InitHost /\ [][NextHost]_vars

----------------------------------------------------------------------------
(* Properties of the Controller, checked under SpecController              *)

\* the capacity a CreateVolume request asks for
RequestedCapacity(req) ==
    IF req.capacity_range.some
    THEN req.capacity_range.val.required_bytes
    ELSE MIN_VOLUME_SIZE_BYTES

\* capacity_bytes - spare_bytes of the managed volume group
FreeBytes ==
    vg.capacity_bytes
        - (IF vconfig.spare_bytes.some THEN vconfig.spare_bytes.val ELSE 0)

\* the volumes of the managed group that carry the safe name of `name`
Named(L, name) ==
    {lv \in L : lv.volume_group = ManagedVg /\ lv.name = hash_resource(name)}

Managed(L) == {lv \in L : lv.volume_group = ManagedVg}

\* a CreateVolume request that passes every argument and capacity check
WellFormedCreate(req) ==
    /\ req.name # ""
    /\ req.volume_capabilities # <<>>
    /\ req.capacity_range.some => req.capacity_range.val.limit_bytes >= 0
    /\ RequestedCapacity(req) >= MIN_VOLUME_SIZE_BYTES
    /\ RequestedCapacity(req) <= FreeBytes

IsCreate == last.op = "CreateVolume" /\ last.fault = NoFault
IsDelete == last.op = "DeleteVolume" /\ last.fault = NoFault

\* C1: CreateVolume(name, C) with a valid capacity C succeeds when no volume
\* of another capacity holds the name, and a second identical call right
\* after a successful one succeeds too, returns the same volume id and
\* leaves the number of logical volumes as it was, one volume for the name.
C1_IdempotentCreate ==
    (IsCreate /\ WellFormedCreate(last.req)) =>
        /\ (\A lv \in Named(last.pre, last.req.name) :
                lv.capacity_bytes = RequestedCapacity(last.req))
              => last.status = "OK"
        /\ (last.repeat /\ last.first.status = "OK") =>
              /\ last.status = "OK"
              /\ last.reply.val.volume_id = last.first.reply.val.volume_id
              /\ Cardinality(lvs) = Cardinality(last.pre)
              /\ Cardinality(Named(lvs, last.req.name)) = 1

C1_Witness ==
    /\ IsCreate
    /\ last.repeat
    /\ last.first.status = "OK"
    /\ last.status = "OK"
    /\ last.reply.val.volume_id = last.first.reply.val.volume_id
    /\ Cardinality(Named(lvs, last.req.name)) = 1

\* C2 as stated: whenever a volume of a different capacity holds the safe
\* name, CreateVolume fails AlreadyExists, creates nothing, formats nothing.
C2_Original ==
    (/\ IsCreate
     /\ \E lv \in Named(last.pre, last.req.name) :
            lv.capacity_bytes # RequestedCapacity(last.req))
    => (/\ last.status = "AlreadyExists"
        /\ lvs = last.pre
        /\ last.format_calls = {})

\* C2 amended: a CreateVolume request that passes the argument and capacity
\* checks, for a name whose safe name is held in the managed group by a
\* volume of a different capacity, fails AlreadyExists, creates no volume and
\* issues no format call; no request for such a name creates or formats.
C2_ConflictAlreadyExists ==
    (/\ IsCreate
     /\ \E lv \in Named(last.pre, last.req.name) :
            lv.capacity_bytes # RequestedCapacity(last.req))
    => (/\ WellFormedCreate(last.req) => last.status = "AlreadyExists"
        /\ last.status # "OK"
        /\ lvs = last.pre
        /\ last.format_calls = {})

C2_Witness ==
    /\ IsCreate
    /\ WellFormedCreate(last.req)
    /\ \E lv \in Named(last.pre, last.req.name) :
           lv.capacity_bytes # RequestedCapacity(last.req)
    /\ last.status = "AlreadyExists"

\* C3 as stated: with a name and capabilities, every requested capacity
\* below 512 MiB, zero and negative included, fails OutOfRange and creates
\* no volume.
C3_Original ==
    (/\ IsCreate
     /\ last.req.name # ""
     /\ last.req.volume_capabilities # <<>>
     /\ RequestedCapacity(last.req) < MIN_VOLUME_SIZE_BYTES)
    => (last.status = "OutOfRange" /\ lvs = last.pre)

\* C3 amended: with a name and capabilities, a required_bytes in
\* 0 .. 512 MiB - 1 with a non-negative limit_bytes fails OutOfRange, a
\* negative required_bytes or limit_bytes fails InvalidArgument, and neither
\* creates a logical volume.
C3_BelowMinimumRejected ==
    (/\ IsCreate
     /\ last.req.name # ""
     /\ last.req.volume_capabilities # <<>>
     /\ RequestedCapacity(last.req) < MIN_VOLUME_SIZE_BYTES)
    => (/\ lvs = last.pre
        /\ last.status =
              IF \/ last.req.capacity_range.val.required_bytes < 0
                 \/ last.req.capacity_range.val.limit_bytes < 0
              THEN "InvalidArgument"
              ELSE "OutOfRange")

C3_Witness ==
    /\ IsCreate
    /\ last.req.name # ""
    /\ last.req.volume_capabilities # <<>>
    /\ RequestedCapacity(last.req) = MIN_VOLUME_SIZE_BYTES - 1
    /\ last.status = "OutOfRange"
    /\ lvs = last.pre

C5_IdempotentDelete ==
    (IsDelete /\ last.req.volume_id # "") =>
        /\ last.status = "OK"
        /\ last.repeat => last.first.status = "OK"
        /\ {lv \in Managed(last.pre) : lv.uuid = last.req.volume_id} = {}
              => lvs = last.pre
        /\ {lv \in Managed(lvs) : lv.uuid = last.req.volume_id} = {}

----------------------------------------------------------------------------
(* Properties of mountd, checked under SpecMountd                          *)

IsMount == last.op = "Mount" /\ last.fault = NoFault /\ last.req.mount.some
IsUnmount == last.op = "Unmount" /\ last.fault = NoFault

HasReadOnly(flags) == \E i \in DOMAIN flags : flags[i] = "ReadOnly"

\* the path's (uid, gid) is the configured owning (user, group)
Owned(F, path) ==
    F[path].uid = mconfig.for_user /\ F[path].gid = mconfig.for_group

\* some well-formed whitelist glob matches the path
Whitelisted(path) ==
    \E i \in DOMAIN mconfig.whitelist :
        /\ GlobNew(mconfig.whitelist[i]).status = "OK"
        /\ GlobMatch(GlobNew(mconfig.whitelist[i]).val, Components(path))

\* an existing path that is neither owned nor whitelisted
Stranger(F, path) ==
    /\ path \in FsPaths
    /\ F[path].exists
    /\ ~Owned(F, path)
    /\ ~Whitelisted(path)

\* the policy of the data model: exists and (whitelisted or owned)
Interactable(F, path) ==
    /\ path \in FsPaths
    /\ F[path].exists
    /\ Whitelisted(path) \/ Owned(F, path)

\* C6 as stated: mount with dst already in the live mount table returns
\* success and issues no mount syscall.
C6_Original ==
    (/\ IsMount
     /\ last.req.mount.val.src # ""
     /\ last.req.mount.val.dst \in mountpaths(last.pre))
    => (last.status = "OK" /\ last.syscalls = {})

\* C6 amended: mount with dst already in the live mount table issues no
\* mount syscall and changes neither the mount table nor the filesystem; it
\* returns success exactly when src is non-empty, src and dst pass the policy
\* check and dst is a directory, and the status of the failed check
\* otherwise.  A mount call repeated after a successful one issues no syscall.
C6_MountedDstNoSyscall ==
    /\ (IsMount /\ last.req.mount.val.dst \in mountpaths(last.pre)) =>
          /\ last.syscalls = {}
          /\ mounts = last.pre
          /\ fs = last.prefs
          /\ last.status \in
                {"OK", "InvalidArgument", "PermissionDenied", "FailedPrecondition"}
          /\ last.status = "OK" <=>
                /\ last.req.mount.val.src # ""
                /\ ensure_interactable(last.prefs, last.req.mount.val.src, FALSE)
                      = "Ok"
                /\ ensure_interactable(last.prefs, last.req.mount.val.dst,
                                       HasReadOnly(last.req.flags)) = "Ok"
                /\ last.prefs[last.req.mount.val.dst].kind = "dir"
    /\ (IsMount /\ last.repeat /\ last.first.status = "OK") =>
          (last.syscalls = {} /\ mounts = last.pre)

C6_Witness ==
    /\ IsMount
    /\ last.repeat
    /\ last.first.status = "OK"
    /\ last.first.syscalls # {}
    /\ last.req.mount.val.dst \in mountpaths(last.pre)
    /\ last.status = "OK"
    /\ last.syscalls = {}

\* C7: unmount of a non-empty path that is not in the live mount table
\* returns success, issues no unmount syscall and leaves the mount table
\* (and the filesystem) unchanged.
C7_UnmountNotMountedNoop ==
    (/\ IsUnmount
     /\ last.req.path # ""
     /\ last.req.path \notin mountpaths(last.pre))
    => (/\ last.status = "OK"
        /\ last.syscalls = {}
        /\ mounts = last.pre
        /\ fs = last.prefs)

C7_Witness ==
    /\ IsUnmount
    /\ last.req.path # ""
    /\ last.req.path \notin mountpaths(last.pre)
    /\ ~Interactable(last.prefs, last.req.path)
    /\ last.status = "OK"
    /\ mounts = last.pre

\* C8 as stated: mount (for src and for dst) and unmount reject a path that
\* is neither owned nor whitelisted with PermissionDenied and leave the mount
\* table unchanged.
C8_Original ==
    /\ (/\ IsMount
        /\ last.req.mount.val.src # ""
        /\ last.req.mount.val.dst # ""
        /\ \/ Stranger(last.prefs, last.req.mount.val.src)
           \/ Stranger(last.prefs, last.req.mount.val.dst))
       => (last.status = "PermissionDenied" /\ mounts = last.pre)
    /\ (IsUnmount /\ Stranger(last.prefs, last.req.path))
       => (last.status = "PermissionDenied" /\ mounts = last.pre)

\* C8 amended: mount with non-empty src and dst rejects a src or dst that is
\* neither owned nor whitelisted with PermissionDenied; unmount rejects such
\* a path with PermissionDenied when the path is in the live mount table, and
\* returns success without checking it when it is not.  The mount table is
\* unchanged in every one of these cases.
C8_StrangerRejected ==
    /\ (/\ IsMount
        /\ last.req.mount.val.src # ""
        /\ last.req.mount.val.dst # ""
        /\ \/ Stranger(last.prefs, last.req.mount.val.src)
           \/ Stranger(last.prefs, last.req.mount.val.dst))
       => (last.status = "PermissionDenied" /\ mounts = last.pre)
    /\ (IsUnmount /\ Stranger(last.prefs, last.req.path))
       => /\ mounts = last.pre
          /\ last.status = IF last.req.path \in mountpaths(last.pre)
                           THEN "PermissionDenied"
                           ELSE "OK"

C8_Witness ==
    /\ IsUnmount
    /\ Stranger(last.prefs, last.req.path)
    /\ last.req.path \in mountpaths(last.pre)
    /\ last.status = "PermissionDenied"
    /\ mounts = last.pre

\* C9: without the read-only requirement the policy check accepts a path
\* iff the path exists and (a well-formed whitelist glob matches it or its
\* (uid, gid) is the configured pair); unmount of a mounted path and the src
\* check of mount decide by it.
C9_PolicyIff ==
    /\ \A path \in FsPaths :
          (ensure_interactable(fs, path, FALSE) = "Ok") <=> Interactable(fs, path)
    /\ (IsUnmount /\ last.req.path \in mountpaths(last.pre)) =>
          /\ last.status = "OK" <=> Interactable(last.prefs, last.req.path)
          /\ last.status = "PermissionDenied"
                <=> ~Interactable(last.prefs, last.req.path)
    /\ (IsMount /\ last.req.mount.val.src # "" /\ last.req.mount.val.dst # "") =>
          (~Interactable(last.prefs, last.req.mount.val.src)
              => last.status = "PermissionDenied")

C9_Witness ==
    /\ IsUnmount
    /\ last.req.path \in mountpaths(last.pre)
    /\ Whitelisted(last.req.path)
    /\ ~Owned(last.prefs, last.req.path)
    /\ last.status = "OK"
    /\ last.req.path \notin mountpaths(mounts)

\* C10 as stated: a mount request with the ReadOnly flag is rejected with
\* PermissionDenied when dst's read-only bit is not set, and is not rejected
\* by the policy check when the bit is set and dst is otherwise interactable.
C10_ReadOnlyNeedsBit ==
    (/\ IsMount
     /\ last.req.mount.val.src # ""
     /\ last.req.mount.val.dst # ""
     /\ HasReadOnly(last.req.flags)
     /\ Interactable(last.prefs, last.req.mount.val.src)
     /\ Interactable(last.prefs, last.req.mount.val.dst))
    => IF last.prefs[last.req.mount.val.dst].readonly
       THEN last.status # "PermissionDenied"
       ELSE last.status = "PermissionDenied"

\* C11: every mount syscall mountd issues carries both NODEV and NOSUID,
\* whatever flag list the caller supplied
C11_HardenedFlags ==
    IsMount =>
        \A call \in last.syscalls :
            call.call = "mount" => {"NODEV", "NOSUID"} \subseteq call.flags

\* a mount syscall issued for a caller that asked for no hardening flag
C11_Witness ==
    /\ IsMount
    /\ last.req.flags \in {<<>>, <<"Unknown">>, <<"Bind", "ReadOnly">>}
    /\ \E call \in last.syscalls :
           call.call = "mount" /\ {"NODEV", "NOSUID"} \subseteq call.flags

IsList == last.op = "ListVolumes" /\ last.fault = NoFault

\* the index a starting token names: 0 for the empty token
TokenStart(token) == IF token = "" THEN 0 ELSE ParseUsize(token).val

\* the error statuses of the protocol taxonomy
ErrorTaxonomy ==
    {"InvalidArgument", "NotFound", "AlreadyExists", "OutOfRange",
     "FailedPrecondition", "PermissionDenied", "Aborted", "Internal",
     "Unimplemented"}

\* C14: however two CreateVolume calls for one new name and one valid
\* capacity interleave, at most one logical volume with the derived safe
\* name ever exists, and a call whose create the volume manager rejects as
\* a conflict returns an error status of the taxonomy and no volume.
C14_ConcurrentCreate ==
    calls # <<>>
    => /\ \A name \in {"a", "b"} : Cardinality(Named(lvs, name)) <= 1
       /\ \A p \in DOMAIN calls :
             (calls[p].pc = "done" /\ calls[p].rejected)
             => /\ calls[p].status \in ErrorTaxonomy
                /\ calls[p].reply = None

\* both calls saw "not found"; one created the volume, the other's create
\* was rejected
C14_Witness ==
    /\ calls # <<>>
    /\ \E p, q \in DOMAIN calls :
          /\ calls[p].pc = "done" /\ calls[p].status = "OK" /\ calls[p].reply.some
          /\ calls[q].pc = "done" /\ calls[q].rejected
          /\ calls[q].status \in ErrorTaxonomy
          /\ Cardinality(Named(lvs, calls[p].req.name)) = 1

\* C15 as stated: ListVolumes returns as nextToken the decimal string of
\* start + maxEntries when start + maxEntries is less than the number of
\* logical volumes of the volume group, and the empty string otherwise.
C15_NextToken ==
    (IsList /\ last.status = "OK")
    => LET start == TokenStart(last.req.starting_token)
           total == Cardinality(Managed(last.pre))
       IN last.reply.val.next_token =
              IF start + last.req.max_entries < total
              THEN ToString(start + last.req.max_entries)
              ELSE ""

\* C16: the entries ListVolumes returns are the first maxEntries volumes of
\* the authority's list when maxEntries > 0 and all of them when
\* maxEntries = 0, whatever valid starting token the request carries.
C16_EntriesIgnoreToken ==
    (IsList /\ last.status = "OK")
    => LET all == get_lv_list(last.pre, NoFault).val
           n == IF last.req.max_entries = 0 \/ last.req.max_entries > Len(all)
                THEN Len(all)
                ELSE last.req.max_entries
           entries == last.reply.val.entries
       IN /\ Len(entries) = n
          /\ \A i \in 1..n :
                /\ entries[i].volume.some
                /\ entries[i].volume.val.volume_id = all[i].uuid
                /\ entries[i].volume.val.capacity_bytes = all[i].capacity_bytes
          /\ \A k \in 0..MaxToken :
                entries = list_volumes(
                              last.pre,
                              [last.req EXCEPT !.starting_token = ToString(k)],
                              NoFault).entries

\* a page of one entry out of two volumes, asked for from token "1"
C16_Witness ==
    /\ IsList
    /\ last.status = "OK"
    /\ last.req.max_entries = 1
    /\ last.req.starting_token = "1"
    /\ Cardinality(Managed(last.pre)) = 2
    /\ Len(last.reply.val.entries) = 1
    /\ last.reply.val.entries[1].volume.val.volume_id = Uuid(1)

IsGetCapacity == last.op = "GetCapacity" /\ last.fault = NoFault

IsGetFreeBytes == last.op = "GetFreeBytes" /\ last.fault = NoFault

\* C18: volumed's getFreeBytes returns capacity_bytes - spare_bytes when
\* capacity_bytes >= spare_bytes and 0 when spare_bytes > capacity_bytes
\* (spare_bytes is 0 when not configured); the result is never negative.
C18_FreeBytesSaturates ==
    IsGetFreeBytes
    => LET spare == IF vconfig.spare_bytes.some THEN vconfig.spare_bytes.val ELSE 0
           capacity == last.vg.capacity_bytes
       IN /\ last.status = "OK"
          /\ last.reply.val.bytes_free >= 0
          /\ capacity >= spare => last.reply.val.bytes_free + spare = capacity
          /\ spare > capacity => last.reply.val.bytes_free = 0

\* the group has shrunk below the configured spare bytes
C18_Witness ==
    /\ IsGetFreeBytes
    /\ vconfig.spare_bytes.some
    /\ vconfig.spare_bytes.val > last.vg.capacity_bytes
    /\ last.reply.val.bytes_free = 0

IsValidate == last.op = "ValidateVolumeCapabilities" /\ last.fault = NoFault

\* C19 as stated: ValidateVolumeCapabilities with a non-empty volume id and
\* non-empty capabilities returns NotFound when the volume is absent from
\* the managed volume group, and for a volume of the group the same
\* confirmed pair (single-node-writer block, single-node-writer xfs mount)
\* whatever capabilities were requested.
C19_ValidateFixedPair ==
    (/\ IsValidate
     /\ last.req.volume_id # ""
     /\ last.req.volume_capabilities # <<>>)
    => IF \E lv \in Managed(last.pre) : lv.uuid = last.req.volume_id
       THEN /\ last.status = "OK"
            /\ last.reply.val.confirmed.some
            /\ LET caps == last.reply.val.confirmed.val.volume_capabilities
               IN /\ Len(caps) = 2
                  /\ caps[1].access_mode = "SingleNodeWriter"
                  /\ caps[1].access_type.kind = "Block"
                  /\ caps[2].access_mode = "SingleNodeWriter"
                  /\ caps[2].access_type.kind = "Mount"
                  /\ caps[2].access_type.fs_type = "xfs"
       ELSE last.status = "NotFound"

\* C20: ControllerPublishVolume, ControllerUnpublishVolume, CreateSnapshot,
\* DeleteSnapshot, ListSnapshots, ControllerExpandVolume and
\* ControllerGetVolume return Unimplemented in every state, for every
\* request, and change no volume and no mount.
C20_Unimplemented ==
    last.op \in {"ControllerPublishVolume", "ControllerUnpublishVolume",
                 "CreateSnapshot", "DeleteSnapshot", "ListSnapshots",
                 "ControllerExpandVolume", "ControllerGetVolume"}
    => /\ last.status = "Unimplemented"
       /\ last.reply = None
       /\ lvs = last.pre
       /\ mounts = last.premounts
       /\ fs = last.prefs

\* ControllerGetVolume for a volume that exists
C20_Witness ==
    /\ last.op = "ControllerGetVolume"
    /\ last.status = "Unimplemented"
    /\ \E lv \in Managed(lvs) : lv.uuid = last.req.volume_id

----------------------------------------------------------------------------
(* Properties of the Node and of the whole lifecycle, under SpecHost       *)

IsPublish == last.op = "NodePublishVolume"

\* C12 as stated: NodePublishVolume for an existing volume and a staging
\* path that no NodeStageVolume has mounted fails with FailedPrecondition
\* and leaves the target path unmounted, also when the staging directory
\* was pre-created by the caller but never staged.
C12_PublishNeedsStage ==
    (/\ IsPublish
     /\ \E lv \in last.pre : lv.uuid = last.req.volume_id
     /\ last.req.staging_target_path # ""
     /\ last.req.target_path # ""
     /\ last.req.volume_capability.some
     /\ last.req.staging_target_path \notin mountpaths(last.premounts))
    => /\ last.status = "FailedPrecondition"
       /\ last.req.target_path \notin mountpaths(mounts)

\* C13: from no volumes and no mounts, CreateVolume (1 GiB) ->
\* NodeStageVolume -> NodePublishVolume (read-write) -> NodeUnpublishVolume
\* -> NodeUnstageVolume -> DeleteVolume -> ListVolumes succeeds at every
\* step, ListVolumes returns no entries, and neither the staging nor the
\* target path is in the mount table at the end.
C13_Lifecycle ==
    /\ last.chain.step >= 1 => last.status = "OK"
    /\ last.chain.step = 1 => last.reply.val.capacity_bytes = 1024 * 1024 * 1024
    /\ last.chain.step = 2 => StagingPath \in mountpaths(mounts)
    /\ last.chain.step = 3 => TargetPath \in mountpaths(mounts)
    /\ last.chain.step >= 6
       => /\ {lv \in lvs : lv.volume_group = ManagedVg} = {}
          /\ StagingPath \notin mountpaths(mounts)
          /\ TargetPath \notin mountpaths(mounts)
    /\ last.chain.step = 7 => last.reply.val.entries = <<>>

\* the whole scenario has run, ListVolumes included
C13_Witness ==
    /\ last.chain.step = 7
    /\ last.op = "ListVolumes"
    /\ last.status = "OK"
    /\ last.reply.val.entries = <<>>
    /\ mountpaths(mounts) = {}


IsNodeTodo == last.op \in {"NodeGetVolumeStats", "NodeExpandVolume"}

\* C21: every call to NodeGetVolumeStats and to NodeExpandVolume completes
\* by returning the Unimplemented status; the handler does not panic.
C21_NodeUnimplemented ==
    IsNodeTodo => last.status = "Unimplemented"


\* the logical volumes of the managed group a Volume may stand for: those
\* with its volume_id that CreateVolume tagged with the Volume's context name
VolumeOf(L, volume) ==
    {lv \in Managed(L) :
        /\ lv.uuid = volume.volume_id
        /\ lv.tags = <<"name=" \o volume.volume_context.name>>}

\* C24: the Volume returned by CreateVolume, and every Volume listed by
\* ListVolumes, carries in volume_context["name"] the human-readable name
\* the caller supplied (not the hashed safe name), and its volume_id is the
\* UUID of the logical volume.
C24_VolumeContextName ==
    /\ (IsCreate /\ last.status = "OK")
       => /\ last.reply.val.volume_context.name = last.req.name
          /\ \E lv \in Named(lvs, last.req.name) :
                lv.uuid = last.reply.val.volume_id
    /\ (IsList /\ last.status = "OK")
       => \A i \in DOMAIN last.reply.val.entries :
             VolumeOf(last.pre, last.reply.val.entries[i].volume.val) # {}


\* a request that names no required capacity: no capacity range at all, or
\* a range whose required_bytes is left at 0
NoRequiredCapacity(req) ==
    \/ ~req.capacity_range.some
    \/ req.capacity_range.val.required_bytes = 0

\* C27: when a CreateVolume request does not specify a required capacity
\* (no capacity range, or a range with required_bytes = 0), the capacity is
\* taken as 512 MiB and the call is not rejected for being below the minimum.
C27_DefaultCapacity ==
    (/\ IsCreate
     /\ last.req.name # ""
     /\ last.req.volume_capabilities # <<>>
     /\ NoRequiredCapacity(last.req)
     /\ get_free_bytes(NoFault).val >= MIN_VOLUME_SIZE_BYTES)
    => /\ last.status # "OutOfRange"
       /\ last.status = "OK"
          => last.reply.val.capacity_bytes = MIN_VOLUME_SIZE_BYTES


\* the request names the UUID of a logical volume of another volume group
NamesForeignLv(L, volume_id) ==
    \E lv \in L \ Managed(L) : lv.uuid = volume_id

\* C28: every volumed operation acts only on the configured volume group:
\* the lookup by UUID answers NotFound for the UUID of a logical volume of
\* another group, so that DeleteVolume by such a UUID never removes a
\* volume of the managed group.
C28_ManagedGroupOnly ==
    (IsDelete /\ NamesForeignLv(last.pre, last.req.volume_id))
    => /\ get_logical_volume(
              last.pre, [kind |-> "Uuid", val |-> last.req.volume_id],
              NoFault).status = "NotFound"
       /\ Managed(lvs) = Managed(last.pre)


\* C29: a mount call whose dst does not exist, or is not a directory, fails
\* with FailedPrecondition or InvalidArgument (not PermissionDenied or
\* Internal) and performs no mount syscall.  Checked for calls whose src
\* passes the access policy.
C29_BadTargetRejected ==
    (/\ IsMount
     /\ last.req.mount.val.src # ""
     /\ last.req.mount.val.dst # ""
     /\ ensure_interactable(last.prefs, last.req.mount.val.src, FALSE) = "Ok"
     /\ last.prefs[last.req.mount.val.dst].kind # "dir")
    => /\ last.status \in {"FailedPrecondition", "InvalidArgument"}
       /\ last.syscalls = {}


IsStage == last.op = "NodeStageVolume"
IsUnpublish == last.op = "NodeUnpublishVolume"

\* the device of the volume the request names is what is mounted at `path`
HoldsVolume(L, M, path, volume_id) ==
    /\ path \in mountpaths(M)
    /\ \E lv \in LvFromUuid(L, volume_id) : M[path].val.src = LvPath(lv)

IsUnstage == last.op = "NodeUnstageVolume"

\* some target is bind-mounted from the staging path `staging`
PublishedFrom(M, staging) ==
    \E p \in mountpaths(M) :
        "BIND" \in M[p].val.flags /\ M[p].val.src = staging

\* C26: a bind-mounted target implies that the volume's staging path is
\* still mounted: NodeUnstageVolume never succeeds in unmounting the staging
\* path of a published volume.
C26_PublishedStaysStaged ==
    (/\ IsUnstage
     /\ HoldsVolume(last.pre, last.premounts,
                    last.req.staging_target_path, last.req.volume_id)
     /\ PublishedFrom(last.premounts, last.req.staging_target_path))
    => last.req.staging_target_path \in mountpaths(mounts)


\* a CreateVolume call, whether or not a host command failed under it
IsCreateCall == last.op = "CreateVolume"

\* C30: a CreateVolume call that returns an error leaves the set of logical
\* volumes exactly as before; in particular, when the create succeeds and
\* the format fails, no newly created volume remains.
C30_FailedCreateLeavesNothing ==
    (IsCreateCall /\ last.status # "OK") => lvs = last.pre


\* a DeleteVolume call, whether or not a host command failed under it
IsDeleteCall == last.op = "DeleteVolume"

\* what volumed answered to the lookup DeleteVolume made
DeleteLookup ==
    get_logical_volume(
        last.pre, [kind |-> "Uuid", val |-> last.req.volume_id], last.fault)

\* C23: no operation returns success after an internal step failed (the
\* removal of the target directory after NodeUnpublishVolume and a malformed
\* whitelist glob apart); in particular DeleteVolume does not return
\* success when its lookup failed with an error other than NotFound.
C23_NoSuccessAfterFailure ==
    (/\ IsDeleteCall
     /\ last.req.volume_id # ""
     /\ DeleteLookup.status \notin {"OK", "NotFound"})
    => last.status # "OK"


\* the error volumed answered to the first call of the handler that failed,
\* or "OK" when the handler made no call that failed.  The NotFound of the
\* lookup in CreateVolume and DeleteVolume is the handlers' "no such volume"
\* path and not an error to report.
AuthorityError ==
    LET op == last.op
        req == last.req
        byUuid == get_logical_volume(
                      last.pre, [kind |-> "Uuid", val |-> req.volume_id],
                      last.fault)
    IN CASE op = "DeleteVolume" /\ req.volume_id # "" ->
                IF byUuid.status = "NotFound"
                THEN "OK"
                ELSE IF byUuid.status # "OK"
                THEN byUuid.status
                ELSE delete_logical_volume(
                         last.pre, byUuid.val.name, last.fault).status
         [] /\ op = "ValidateVolumeCapabilities"
            /\ req.volume_id # ""
            /\ req.volume_capabilities # <<>> ->
                byUuid.status
         [] op = "ListVolumes" /\ req.max_entries >= 0 ->
                get_lv_list(last.pre, last.fault).status
         [] op = "GetCapacity" /\ last.volumed_calls # {} ->
                get_free_bytes(last.fault).status
         [] op = "CreateVolume" /\ last.format_calls # {} ->
                format_logical_volume(
                    lvs, hash_resource(req.name), last.fault).status
         [] OTHER -> "OK"

\* C22: an error status that volumed returns to a Controller handler
\* reaches the handler's caller with the same status code.
C22_AuthorityStatusPropagates ==
    AuthorityError # "OK" => last.status = AuthorityError


\* C31: whenever DeleteVolume(id) returns success, no logical volume with
\* UUID id exists in the volume group afterwards, also when volumed's lookup
\* of id failed with InvalidArgument or Internal rather than NotFound.
C31_DeletedMeansAbsent ==
    (/\ IsDeleteCall
     /\ last.status = "OK"
     /\ last.fault.kind # "NotFound")
    => LvFromUuid(Managed(lvs), last.req.volume_id) = {}


\* C33: however two concurrent CreateVolume calls with the same name and
\* the same valid capacity, for a name with no volume, interleave, both
\* calls return success and both carry the same volume id.
C33_ConcurrentCreateBothSucceed ==
    (/\ calls # <<>>
     /\ \A p \in DOMAIN calls : calls[p].pc = "done")
    => /\ \A p \in DOMAIN calls : calls[p].status = "OK"
       /\ \A p, q \in DOMAIN calls :
             calls[p].reply.val.volume_id = calls[q].reply.val.volume_id


\* C32: however two concurrent DeleteVolume calls with the same id of an
\* existing volume interleave, both calls return success and the volume is
\* absent afterwards; neither call returns NotFound because the other
\* removed the volume between its lookup and its delete.
C32_ConcurrentDeleteBothSucceed ==
    (/\ calls # <<>>
     /\ \A p \in DOMAIN calls :
           /\ calls[p].pc = "done"
           /\ calls[p].req = [volume_id |-> Uuid(1)])
    => /\ \A p \in DOMAIN calls : calls[p].status = "OK"
       /\ LvFromUuid(lvs, Uuid(1)) = {}


\* a caller that re-issues ListVolumes with each returned next_token, over
\* an unchanged set of volumes: whether it is handed an empty next_token.
\* `seen` holds the tokens it was handed so far; a token handed twice means
\* the same replies repeat for ever.
RECURSIVE PaginationEnds(_, _, _, _)
PaginationEnds(L, max_entries, token, seen) ==
    LET out == list_volumes(
                   L, [max_entries |-> max_entries, starting_token |-> token],
                   NoFault)
    IN IF out.status # "OK"
       THEN FALSE
       ELSE IF out.next_token = ""
       THEN TRUE
       ELSE IF out.next_token \in seen
       THEN FALSE
       ELSE PaginationEnds(L, max_entries, out.next_token,
                           seen \cup {out.next_token})

\* C34: a caller that paginates ListVolumes, starting with the empty token
\* and re-issuing the call with each returned next_token (same max_entries,
\* unchanged volumes), receives an empty next_token after finitely many
\* calls, for every max_entries >= 0 and every number of volumes.
C34_PaginationTerminates ==
    (/\ IsList
     /\ last.status = "OK"
     /\ last.req.starting_token = "")
    => PaginationEnds(last.pre, last.req.max_entries, "", {})


\* a mount call, whether or not a host call failed under it
IsMountCall == last.op = "Mount"

\* C35: a mount call that returns an error leaves the live mount table
\* unchanged; in particular, when the mount syscall succeeds and the chown
\* of dst that follows fails, dst is not left mounted while the caller is
\* told Internal.
C35_FailedMountLeavesNothing ==
    (IsMountCall /\ last.status # "OK") => mounts = last.pre


\* C36: a NodePublishVolume call that fails (volume id not resolvable,
\* staging path missing, or mount rejected) leaves the host filesystem as
\* it was before the call: it creates no target directory and no mount.
C36_FailedPublishLeavesNothing ==
    (IsPublish /\ last.status # "OK")
    => /\ fs = last.prefs
       /\ mounts = last.premounts


\* C37: whenever NodeStageVolume(volume id, staging path, capability)
\* returns success, the staging path is mounted from the block device of
\* the volume, and the mount is read-only if and only if the capability's
\* access mode is SingleNodeReaderOnly; also when the staging path was
\* already mounted before the call.
C37_StagedAsRequested ==
    (IsStage /\ last.status = "OK")
    => /\ HoldsVolume(lvs, mounts, last.req.staging_target_path,
                      last.req.volume_id)
       /\ ("RDONLY" \in mounts[last.req.staging_target_path].val.flags)
              <=> IsReadOnly(last.req.volume_capability)


\* a CreateVolume call served on the host of the Node
IsHostCreate == last.op = "CreateVolume"

\* the device of the volume that carries the safe name of `name` is mounted
StagedByName(L, M, name) ==
    \E lv \in Named(L, name) :
        \E p \in mountpaths(M) : M[p].val.src = LvPath(lv)

\* C38: the format command is never run on a logical volume whose block
\* device is mounted at a staging path; in particular a retried CreateVolume
\* with the same name and capacity for a volume that is staged or published
\* does not format it again.
C38_NoFormatWhileStaged ==
    (IsHostCreate /\ StagedByName(last.pre, last.premounts, last.req.name))
    => last.syscalls = {}


\* C39: in every state reachable by CreateVolume and DeleteVolume calls, the
\* capacities of the existing logical volumes of the group sum to at most
\* capacity_bytes - spare_bytes: provisioned volumes never consume the
\* spare reservation.
C39_SpareNeverConsumed ==
    SumCapacity(Managed(lvs)) <= FreeBytes


\* the path a teardown call is to unmount
TeardownPath ==
    IF IsUnstage THEN last.req.staging_target_path ELSE last.req.target_path

\* the volume ids CreateVolume has handed out so far
HandedOut == {Uuid(i) : i \in 1..(nextUuid - 1)}

\* C40: NodeUnstageVolume and NodeUnpublishVolume can always complete the
\* teardown of an existing mount: for a staging or target path that is
\* mounted, the call unmounts it and returns success, also when the volume
\* id no longer resolves to a logical volume (after DeleteVolume).
C40_TeardownCompletes ==
    (/\ IsUnstage \/ IsUnpublish
     /\ last.req.volume_id \in HandedOut
     /\ TeardownPath \in mountpaths(last.premounts))
    => /\ last.status = "OK"
       /\ TeardownPath \notin mountpaths(mounts)

====
